---- MODULE Spec2Model ----
(***************************************************************************)
(* Model of the AlpineGP typed primitive catalog (alpine/gp/primitives.py) *)
(* and of the fitness evaluators of the Poisson and elastica applications  *)
(* (apps/stgp_poisson.py, apps/stgp_elastica.py).                          *)
(*                                                                         *)
(* Python strings are modelled as sequences of one-character strings, so   *)
(* that concatenation, replace() and substring tests are computed and not  *)
(* assumed.                                                                *)
(***************************************************************************)
EXTENDS Integers, Sequences, FiniteSets, TLC

(***************************************************************************)
(* Python values                                                           *)
(***************************************************************************)

\* result of a Python expression: a value, or a raised exception
Ok(v) == [exc |-> "none", val |-> v]

Raise(e) == [exc |-> e, val |-> <<>>]

Range(s) == {s[i] : i \in 1..Len(s)}

\* str.replace(old, new): every non-overlapping occurrence, left to right
RECURSIVE replace(_, _, _)
replace(s, old, new) ==
    IF Len(s) < Len(old) \/ Len(old) = 0 THEN s
    ELSE IF SubSeq(s, 1, Len(old)) = old
         THEN new \o replace(SubSeq(s, Len(old) + 1, Len(s)), old, new)
         ELSE <<s[1]>> \o replace(Tail(s), old, new)

Digits == <<"0", "1", "2", "3", "4", "5", "6", "7", "8", "9">>

\* str(n) of an integer with one decimal digit
str(n) == IF n < 0 THEN <<"-", Digits[(-n) + 1]>> ELSE <<Digits[n + 1]>>

\* int(s) of a one-digit string
int(s) == (CHOOSE k \in 1..10 : Digits[k] = s[1]) - 1

\* dict[key] = value
put(dict, key, value) ==
    [n \in (DOMAIN dict) \cup {key} |-> IF n = key THEN value ELSE dict[n]]

\* a | b on dictionaries: the entries of b win
merge(a, b) ==
    [n \in (DOMAIN a) \cup (DOMAIN b) |-> IF n \in DOMAIN b THEN b[n] ELSE a[n]]

(***************************************************************************)
(* The type universe: float and the cochain classes of dctkit.dec.cochain  *)
(***************************************************************************)

float_str == <<"f", "l", "o", "a", "t">>

Cochain_str == <<"C", ".", "C", "o", "c", "h", "a", "i", "n">>

SC == <<"S", "C">>

VT == <<"V", "T">>

Categories == {"P", "D"}

\* largest dimension of a cochain class (2-D complexes)
MaxDim == 2

Dimensions == 0..MaxDim

\* rank suffix of a cochain class name: scalar (no suffix), vector, tensor
Ranks == {<<>>, <<"V">>, <<"T">>}

FloatType == [kind |-> "float"]

CochainTypes ==
    [kind : {"cochain"}, category : Categories, dimension : Dimensions, rank : Ranks]

TypeUniverse == {FloatType} \cup CochainTypes

TypeName(t) ==
    IF t = FloatType THEN float_str
    ELSE Cochain_str \o <<t.category>> \o str(t.dimension) \o t.rank

\* eval(type_name): the class the name denotes; an unknown name raises
eval(type_name) ==
    IF \E t \in TypeUniverse : TypeName(t) = type_name
    THEN Ok(CHOOSE t \in TypeUniverse : TypeName(t) = type_name)
    ELSE Raise("AttributeError")

PrimitiveParams(op, in_types, out_type) ==
    [op |-> op, in_types |-> in_types, out_type |-> out_type]

(***************************************************************************)
(* The mapping rules of the families                                       *)
(***************************************************************************)

identity(x) == x

empty_string(x) == <<>>

rank_downgrade(x) ==
    IF x = <<"T">> THEN Ok(<<"V">>)
    ELSE IF x = <<"V">> THEN Ok(<<>>)
    ELSE Raise("ValueError")

vec_tensor_mul_rank(x) == <<"T">>

star_dim_mut(x, max_dim) == x

star_dim(x, max_dim) == max_dim - x

\* list(set(categories) - set(category))[0]
switch_category(categories, category) ==
    LET switched_category_list == Range(categories) \ Range(category)
    IN  IF switched_category_list = {} THEN Raise("IndexError")
        ELSE Ok(<<CHOOSE c \in switched_category_list : TRUE>>)

\* map_rule['category'](in_category)
apply_category(rule, in_category) ==
    CASE rule = "identity" -> Ok(identity(in_category))
      [] rule = "switch_category" -> switch_category(<<"P", "D">>, in_category)
      [] rule = "empty_string" -> Ok(empty_string(in_category))

\* str(map_rule['dimension'](int(in_dim))), with max_dim for the star
apply_dimension(name, rule, in_dim, max_dim) ==
    IF name = <<"S", "t">>
    THEN IF rule = "star_dim" THEN Ok(str(star_dim(int(in_dim), max_dim)))
         ELSE Raise("TypeError")
    ELSE CASE rule = "identity" -> Ok(str(identity(int(in_dim))))
           [] rule = "add_1" -> Ok(str(1 + int(in_dim)))
           [] rule = "add_m1" -> Ok(str((-1) + int(in_dim)))
           [] rule = "empty_string" -> Ok(empty_string(int(in_dim)))
           [] rule = "star_dim" -> Raise("TypeError")

\* map_rule['rank'](in_rank)
apply_rank(rule, in_rank) ==
    CASE rule = "identity" -> Ok(identity(in_rank))
      [] rule = "rank_downgrade" -> rank_downgrade(in_rank)
      [] rule = "vec_tensor_mul_rank" -> Ok(vec_tensor_mul_rank(in_rank))
      [] rule = "empty_string" -> Ok(empty_string(in_rank))

(***************************************************************************)
(* generate_primitive                                                      *)
(***************************************************************************)

\* in_rank.replace("SC", "")
rank_suffix(in_rank) == replace(in_rank, SC, <<>>)

\* the name with the dimension left out
primitive_name_mut(primitive, in_category, in_dim, in_rank) ==
    primitive.name \o in_category \o in_rank

\* general_primitive['name'] + in_category + in_dim + in_rank
primitive_name(primitive, in_category, in_dim, in_rank) ==
    primitive.name \o in_category \o in_dim \o in_rank

\* the name of the type of the i-th input
in_type_name(primitive, in_category, in_dim, in_rank, i) ==
    LET input == primitive.input[i]
    IN  IF input = float_str THEN Ok(input)
        ELSE IF Len(in_rank) = 2
             THEN IF i <= 2
                  THEN Ok(input \o in_category \o in_dim \o <<in_rank[i]>>)
                  ELSE Raise("IndexError")
             ELSE Ok(input \o in_category \o in_dim \o in_rank)

\* first exception of a sequence of results, or the sequence of their values
RECURSIVE all_ok(_, _)
all_ok(rs, i) ==
    IF i > Len(rs) THEN Ok(<<>>)
    ELSE IF rs[i].exc # "none" THEN Raise(rs[i].exc)
    ELSE LET rest == all_ok(rs, i + 1)
         IN  IF rest.exc # "none" THEN rest ELSE Ok(<<rs[i].val>> \o rest.val)

\* list(map(eval, in_type_name))
in_type(primitive, in_category, in_dim, in_rank) ==
    LET names == [i \in 1..Len(primitive.input) |->
                    in_type_name(primitive, in_category, in_dim, in_rank, i)]
        got == all_ok(names, 1)
    IN  IF got.exc # "none" THEN got
        ELSE all_ok([i \in 1..Len(got.val) |-> eval(got.val[i])], 1)

\* one pass of the body of the innermost loop: the entry it inserts, or the
\* exception it raises
loop_body(primitive, in_category, in_dim, rank, max_dim) ==
    LET in_rank == rank_suffix(rank)
        name == primitive_name(primitive, in_category, in_dim, in_rank)
        ins == in_type(primitive, in_category, in_dim, in_rank)
        out_category == apply_category(primitive.map_category, in_category)
        out_dim == apply_dimension(primitive.name, primitive.map_dimension,
                                   in_dim, max_dim)
        out_rank == apply_rank(primitive.map_rank, in_rank)
    IN  IF ins.exc # "none" THEN Raise(ins.exc)
        ELSE IF out_category.exc # "none" THEN Raise(out_category.exc)
        ELSE IF out_dim.exc # "none" THEN Raise(out_dim.exc)
        ELSE IF out_rank.exc # "none" THEN Raise(out_rank.exc)
        ELSE LET out_type == eval(primitive.output \o out_category.val
                                   \o out_dim.val \o out_rank.val)
             IN  IF out_type.exc # "none" THEN Raise(out_type.exc)
                 ELSE Ok([name |-> name,
                          params |-> PrimitiveParams(primitive.fun, ins.val,
                                                     out_type.val)])

\* the (category, dimension, rank) attributes visited by pass t of the loops
triple(primitive, t) ==
    LET nd == Len(primitive.dimension)
        nr == Len(primitive.rank)
    IN  [category |-> <<primitive.category[((t - 1) \div (nd * nr)) + 1]>>,
         dimension |-> <<primitive.dimension[(((t - 1) \div nr) % nd) + 1]>>,
         rank |-> primitive.rank[((t - 1) % nr) + 1]]

num_triples(primitive) ==
    Len(primitive.category) * Len(primitive.dimension) * Len(primitive.rank)

max_dim_of(primitive) ==
    int(<<primitive.dimension[Len(primitive.dimension)]>>)

(***************************************************************************)
(* The shipped catalog: the family descriptors and the scalar primitives   *)
(***************************************************************************)

\* a family descriptor: fun_info, input, output, att_input and map_rule
Family(name, fun, input, output, category, dimension, rank, mc, md, mr) ==
    [name |-> name, fun |-> fun, input |-> input, output |-> output,
     category |-> category, dimension |-> dimension, rank |-> rank,
     map_category |-> mc, map_dimension |-> md, map_rank |-> mr]

PD == <<"P", "D">>

Dims012 == <<"0", "1", "2">>

add_coch ==
    Family(<<"A", "d", "d", "C">>, "C.add", <<Cochain_str, Cochain_str>>, Cochain_str,
           PD, Dims012, <<SC, <<"V">>, <<"T">>>>,
           "identity", "identity", "identity")

\* the subtraction family under the name of the addition family
sub_coch_mut ==
    Family(<<"A", "d", "d", "C">>, "C.sub", <<Cochain_str, Cochain_str>>, Cochain_str,
           PD, Dims012, <<SC, <<"V">>, <<"T">>>>,
           "identity", "identity", "identity")

sub_coch ==
    Family(<<"S", "u", "b", "C">>, "C.sub", <<Cochain_str, Cochain_str>>, Cochain_str,
           PD, Dims012, <<SC, <<"V">>, <<"T">>>>,
           "identity", "identity", "identity")

\* the coboundary with the category map of the star
coboundary_mut ==
    Family(<<"d">>, "C.coboundary", <<Cochain_str>>, Cochain_str,
           PD, <<"0", "1">>, <<SC>>,
           "switch_category", "add_1", "identity")

coboundary ==
    Family(<<"d">>, "C.coboundary", <<Cochain_str>>, Cochain_str,
           PD, <<"0", "1">>, <<SC>>,
           "identity", "add_1", "identity")

\* the codifferential declared over every dimension
codifferential_mut ==
    Family(<<"d", "e", "l">>, "C.codifferential", <<Cochain_str>>, Cochain_str,
           PD, Dims012, <<SC>>,
           "identity", "add_m1", "identity")

codifferential ==
    Family(<<"d", "e", "l">>, "C.codifferential", <<Cochain_str>>, Cochain_str,
           PD, <<"1", "2">>, <<SC>>,
           "identity", "add_m1", "identity")

tr_coch ==
    Family(<<"t", "r">>, "C.trace", <<Cochain_str>>, Cochain_str,
           PD, Dims012, <<<<"T">>>>,
           "identity", "identity", "rank_downgrade")

mul_FT ==
    Family(<<"M", "F">>, "C.scalar_mul", <<Cochain_str, float_str>>, Cochain_str,
           PD, Dims012, <<SC, <<"T">>>>,
           "identity", "identity", "identity")

mul_coch ==
    Family(<<"C", "M", "u", "l">>, "C.cochain_mul", <<Cochain_str, Cochain_str>>, Cochain_str,
           PD, Dims012, <<SC>>,
           "identity", "identity", "identity")

mul_VT ==
    Family(<<"M", "v">>, "C.vector_tensor_mul", <<Cochain_str, Cochain_str>>, Cochain_str,
           PD, Dims012, <<VT>>,
           "identity", "identity", "vec_tensor_mul_rank")

tran_coch ==
    Family(<<"t", "r", "a", "n">>, "C.transpose", <<Cochain_str>>, Cochain_str,
           PD, Dims012, <<<<"T">>>>,
           "identity", "identity", "identity")

star ==
    Family(<<"S", "t">>, "C.star", <<Cochain_str>>, Cochain_str,
           PD, Dims012, <<SC, <<"T">>>>,
           "switch_category", "star_dim", "identity")

inner_product ==
    Family(<<"I", "n", "n">>, "C.inner_product", <<Cochain_str, Cochain_str>>, float_str,
           PD, Dims012, <<SC, <<"T">>>>,
           "empty_string", "empty_string", "empty_string")

sin_coch ==
    Family(<<"S", "i", "n">>, "C.sin", <<Cochain_str>>, Cochain_str,
           PD, Dims012, <<SC>>,
           "identity", "identity", "identity")

arcsin_coch ==
    Family(<<"A", "r", "c", "S", "i", "n">>, "C.arcsin", <<Cochain_str>>, Cochain_str,
           PD, Dims012, <<SC>>,
           "identity", "identity", "identity")

cos_coch ==
    Family(<<"C", "o", "s">>, "C.cos", <<Cochain_str>>, Cochain_str,
           PD, Dims012, <<SC>>,
           "identity", "identity", "identity")

arccos_coch ==
    Family(<<"A", "r", "c", "C", "o", "s">>, "C.arccos", <<Cochain_str>>, Cochain_str,
           PD, Dims012, <<SC>>,
           "identity", "identity", "identity")

exp_coch ==
    Family(<<"E", "x", "p">>, "C.exp", <<Cochain_str>>, Cochain_str,
           PD, Dims012, <<SC>>,
           "identity", "identity", "identity")

log_coch ==
    Family(<<"L", "o", "g">>, "C.log", <<Cochain_str>>, Cochain_str,
           PD, Dims012, <<SC>>,
           "identity", "identity", "identity")

sqrt_coch ==
    Family(<<"S", "q", "r", "t">>, "C.sqrt", <<Cochain_str>>, Cochain_str,
           PD, Dims012, <<SC>>,
           "identity", "identity", "identity")

square_coch ==
    Family(<<"S", "q", "u", "a", "r", "e">>, "C.square", <<Cochain_str>>, Cochain_str,
           PD, Dims012, <<SC>>,
           "identity", "identity", "identity")

F1 == <<FloatType>>

F2 == <<FloatType, FloatType>>

scalar_primitives ==
    (<<"A", "d", "d", "F">> :> PrimitiveParams("jnp.add", F2, FloatType))
    @@
    (<<"S", "u", "b", "F">> :> PrimitiveParams("jnp.subtract", F2, FloatType))
    @@
    (<<"M", "u", "l", "F">> :> PrimitiveParams("jnp.multiply", F2, FloatType))
    @@
    (<<"D", "i", "v">> :> PrimitiveParams("protectedDiv", F2, FloatType))
    @@
    (<<"S", "i", "n", "F">> :> PrimitiveParams("jnp.sin", F1, FloatType))
    @@
    (<<"A", "r", "c", "s", "i", "n", "F">> :> PrimitiveParams("jnp.arcsin", F1, FloatType))
    @@
    (<<"C", "o", "s", "F">> :> PrimitiveParams("jnp.cos", F1, FloatType))
    @@
    (<<"A", "r", "c", "c", "o", "s", "F">> :> PrimitiveParams("jnp.arccos", F1, FloatType))
    @@
    (<<"E", "x", "p", "F">> :> PrimitiveParams("jnp.exp", F1, FloatType))
    @@
    (<<"L", "o", "g", "F">> :> PrimitiveParams("protectedLog", F1, FloatType))
    @@
    (<<"S", "q", "r", "t", "F">> :> PrimitiveParams("protectedSqrt", F1, FloatType))
    @@
    (<<"S", "q", "u", "a", "r", "e", "F">> :> PrimitiveParams("square_mod", F1, FloatType))
    @@
    (<<"I", "n", "v", "F">> :> PrimitiveParams("inv_float", F1, FloatType))

\* the descriptors in the order the module generates them
families ==
    <<add_coch, sub_coch, coboundary, codifferential,
      tr_coch, mul_FT, mul_coch, mul_VT,
      tran_coch, star, inner_product, sin_coch,
      arcsin_coch, cos_coch, arccos_coch, exp_coch,
      log_coch, sqrt_coch, square_coch>>

(***************************************************************************)
(* Expression trees.  An individual is a deap PrimitiveTree: the list of   *)
(* its nodes in prefix order, each with its name and its arity.  Its       *)
(* string is name(arg, arg) for a primitive and the name for a terminal.   *)
(***************************************************************************)

Node(name, arity) == [name |-> name, arity |-> arity]

\* the largest element of a non-empty set of integers
max(S) == CHOOSE m \in S : \A n \in S : n <= m

\* s.count(sub): the number of non-overlapping occurrences of sub in s,
\* found from the left
RECURSIVE count_from(_, _, _)
count_from(s, sub, p) ==
    IF p + Len(sub) - 1 > Len(s) THEN 0
    ELSE IF SubSeq(s, p, p + Len(sub) - 1) = sub
         THEN 1 + count_from(s, sub, p + Len(sub))
         ELSE count_from(s, sub, p + 1)

count(s, sub) == count_from(s, sub, 1)

\* the index after the last node of the subtree that starts at node p
RECURSIVE subtree_end(_, _)
RECURSIVE args_end(_, _, _)
subtree_end(tree, p) == args_end(tree, p + 1, tree[p].arity)

args_end(tree, p, n) ==
    IF n = 0 THEN p ELSE args_end(tree, subtree_end(tree, p), n - 1)

\* str(individual) of the subtree that starts at node p
RECURSIVE subtree_str(_, _)
RECURSIVE args_str(_, _, _)
subtree_str(tree, p) ==
    IF tree[p].arity = 0 THEN tree[p].name
    ELSE tree[p].name \o <<"(">> \o args_str(tree, p + 1, tree[p].arity) \o <<")">>

args_str(tree, p, n) ==
    subtree_str(tree, p) \o
        (IF n = 1 THEN <<>>
         ELSE <<",", " ">> \o args_str(tree, subtree_end(tree, p), n - 1))

\* str(individual)
PrimitiveTree_str(tree) == subtree_str(tree, 1)

\* the terminal registered by pset.addTerminal(internal_coch, ..., name="int_coch")
int_coch == Node(<<"i", "n", "t", "_", "c", "o", "c", "h">>, 0)

\* nodes of primitives of the catalog
SinP0_node == Node(<<"S", "i", "n", "P", "0">>, 1)

ArcSinP0_node == Node(<<"A", "r", "c", "S", "i", "n", "P", "0">>, 1)

AddCP0_node == Node(<<"A", "d", "d", "C", "P", "0">>, 2)

\* int_coch
tree_terminal == <<int_coch>>

\* SinP0(ArcSinP0(int_coch))
tree_sin_arcsin == <<SinP0_node, ArcSinP0_node, int_coch>>

\* AddCP0(SinP0(int_coch), SinP0(int_coch))
tree_add_sin == <<AddCP0_node, SinP0_node, int_coch, SinP0_node, int_coch>>

Trees == {tree_terminal, tree_sin_arcsin, tree_add_sin}

\* primitives_strings = gps.get_primitives_strings(pset, types): the names of
\* the primitives of the pset
primitives_strings ==
    <<<<"A", "d", "d", "F">>, <<"M", "u", "l", "F">>, <<"S", "i", "n", "F">>,
      <<"A", "d", "d", "C", "P", "0">>, <<"S", "i", "n", "P", "0">>, <<"A", "r", "c", "S", "i", "n", "P", "0">>,
      <<"d", "P", "0">>, <<"S", "t", "P", "0">>>>

(***************************************************************************)
(* Floating-point values of the evaluators.  A finite value is an exact    *)
(* fraction num/den of Unit-ths (1.0 is Unit/1); the two non-finite values *)
(* a sum of squares can take are +inf and NaN.                             *)
(***************************************************************************)

\* digits kept by "{:.5f}".format
Decimals == 5

\* 1.0, in the model's unit: the last digit the format keeps
Unit == 10 ^ Decimals

Fin(num, den) == [k |-> "fin", num |-> num, den |-> den]

Inf == [k |-> "inf", num |-> 0, den |-> 1]

NaN == [k |-> "nan", num |-> 0, den |-> 1]

\* math.isnan
isnan(x) == x.k = "nan"

isfinite(x) == x.k = "fin"

\* a + b on floats whose infinities are all positive
fadd(a, b) ==
    IF isnan(a) \/ isnan(b) THEN NaN
    ELSE IF a.k = "inf" \/ b.k = "inf" THEN Inf
    ELSE IF a.den = b.den THEN Fin(a.num + b.num, a.den)
    ELSE Fin(a.num * b.den + b.num * a.den, a.den * b.den)

\* a * (1/n) for a positive integer n
fdiv(a, n) == IF isfinite(a) THEN Fin(a.num, a.den * n) ELSE a

\* a * n for a finite float a and a non-negative integer n
fmul(a, n) == Fin(a.num * n, a.den)

\* a > b for a finite b; a comparison with NaN is false
fgt(a, b) ==
    IF isnan(a) THEN FALSE
    ELSE IF a.k = "inf" THEN TRUE
    ELSE IF a.den = b.den THEN a.num > b.num
    ELSE a.num * b.den > b.num * a.den

\* equality of two floats (NaN equals nothing)
feq(a, b) ==
    IF isnan(a) \/ isnan(b) THEN FALSE
    ELSE IF a.k = "inf" \/ b.k = "inf" THEN a.k = b.k
    ELSE IF a.den = b.den THEN a.num = b.num
    ELSE a.num * b.den = b.num * a.den

fle(a, b) == feq(a, b) \/ fgt(b, a)

\* float("{:.5f}".format(x)): the nearest multiple of 10^-5, ties to even;
\* "inf" and "nan" are printed and parsed back as themselves
format5(x) ==
    IF ~isfinite(x) THEN x
    ELSE LET q == x.num \div x.den
             r == x.num % x.den
             up == (2 * r > x.den) \/ (2 * r = x.den /\ q % 2 = 1)
         IN  Fin(IF up THEN q + 1 ELSE q, 1)

(***************************************************************************)
(* State                                                                   *)
(***************************************************************************)

VARIABLES
    pc,                    \* position in the code
    coch_primitives,       \* the list of generated family dictionaries
    primitives,            \* the module-level name -> PrimitiveParams mapping
    merged,                \* number of family dictionaries merged so far
    primitive,             \* generate_primitive: its argument
    iteration,             \* generate_primitive: the pass of the nested loops
    primitive_dictionary,  \* generate_primitive: the dictionary being built
    call_res               \* generate_primitive: what the call returned or raised

\* the evaluator of apps/stgp_elastica.py
VARIABLES
    el_pc,            \* position in eval_fitness / eval_MSE
    entry,            \* the function called: "eval_MSE" or "eval_fitness"
    individual,       \* the individual: its EI0 attribute and its tree
    X,                \* the samples: X.ndim and the number of rows X.n
    is_bil_train,     \* argument of eval_MSE
    return_best_sol,  \* argument of eval_MSE
    penalty,          \* argument of eval_fitness: method and reg_param
    solver,           \* the inner solves as a function of their inputs: the
                      \* error of each sample (fval, or alt when the solve
                      \* starts from an EI0 in sensitive) and the EI0 the
                      \* bilevel fit returns from each initial EI0 (fit)
    i,                \* index of the sample of the loop
    EI0,              \* local EI0
    total_err,        \* local total_err
    best_theta,       \* local best_theta (the samples solved, by index)
    best_EI0,         \* local best_EI0
    compiled,         \* number of calls of toolbox.compile
    solves,           \* the inner solves run so far
    result,           \* what eval_MSE returned
    objval,           \* what eval_fitness returned
    via,              \* how the driver evaluates: "direct" (a call on its own
                      \* individual), "pool" (a worker evaluates a copy) or
                      \* "reparse" (the individual is re-parsed from its
                      \* string before it is evaluated again)
    owner,            \* the individual as the driver process holds it
    calls             \* the evaluations that returned, in order

\* eval_MSE of apps/stgp_poisson.py
VARIABLES
    po_pc,               \* position in eval_MSE
    po_split,            \* the split (X, y, bvalues): its number of samples n
                         \* and the squared error norm(x - X[i])**2 the inner
                         \* solve of each sample yields
    po_return_best_sol,  \* argument return_best_sol
    po_i,                \* index of the sample of the loop
    po_total_err,        \* local total_err
    po_compiled,         \* number of calls of toolbox.compile
    po_entry,            \* "eval_MSE" or "eval_fitness"
    po_individual,       \* the tree of the individual
    po_reg_param,        \* reg_param of eval_fitness
    po_objval,           \* the value eval_fitness returns
    po_result            \* what eval_MSE returned

catalog_vars ==
    <<pc, coch_primitives, primitives, merged, primitive, iteration,
      primitive_dictionary, call_res>>

elastica_vars ==
    <<el_pc, entry, individual, X, is_bil_train, return_best_sol, penalty,
      solver, i, EI0, total_err, best_theta, best_EI0, compiled, solves,
      result, objval, via, owner, calls>>

driver_vars == <<via, owner, calls>>

poisson_vars ==
    <<po_pc, po_split, po_return_best_sol, po_i, po_total_err, po_compiled,
      po_result,
      po_entry, po_individual, po_reg_param, po_objval>>

(* The application drivers (stgp_poisson.py, stgp_elastica.py): where the    *)
(* driver is, the configuration it was given, the toolbox entries for the   *)
(* variation operators, the arguments handed to GPSymbRegProblem, and one   *)
(* application of a variation operator.                                     *)
VARIABLES
    dr_pc,        \* position of the driver
    app,          \* "poisson" or "elastica"
    config,       \* the configuration dictionary, or NoConfig for None
    toolbox,      \* alias -> [func, kargs, limits]
    problem,      \* [NINDIVIDUALS, frac_elitist] of the GPSymbRegProblem
    parents,      \* the individuals a variation operator was applied to
    raw,          \* what the undecorated operator produced from them
    offspring,    \* what the toolbox entry returned
    bound_locals  \* the local names of stgp_poisson that hold a value

run_vars ==
    <<dr_pc, app, config, toolbox, problem, parents, raw, offspring, bound_locals>>

(* addPrimitivesToPset: where the call is, its argument, the entry of the   *)
(* argument being handled, and the calls of pset.addPrimitive made so far.  *)
VARIABLES
    ps_pc,           \* position in addPrimitivesToPset
    primitive_spec,  \* the argument: a list of [name, dimension, rank]
    spec_index,      \* number of entries of primitive_spec handled so far
    pset             \* the calls pset.addPrimitive(op, in_types, out_type, name)

pset_vars == <<ps_pc, primitive_spec, spec_index, pset>>

(* One sample of the loop of the elastica eval_MSE at the level of the      *)
(* fields: the true field, the boundary value, the unknowns of the inner    *)
(* solve, the field handed to the energy, the field compared with the true  *)
(* one and the error.                                                       *)
VARIABLES
    sm_pc,         \* position in the body of the loop
    sm_how,        \* "bilevel" (prb.run) or "minimize"
    theta_true,    \* the sample X[i]
    theta_in,      \* the boundary value theta_true[0]
    theta,         \* the unknowns of the inner solve, then the solution
    energy_field,  \* the theta_vec total_energy hands to energy_func
    compared,      \* the theta_guess obj_fun_theta compares with theta_true
    sm_fval        \* the error obj_fun_theta returns

sample_vars ==
    <<sm_pc, sm_how, theta_true, theta_in, theta, energy_field, compared, sm_fval>>

(* generate_dataset of alpine/data/poisson_dataset.py: where the call is,   *)
(* its arguments, the pass of the loop and the two arrays.                  *)
VARIABLES
    ds_pc,     \* position in generate_dataset
    mult,      \* argument mult
    diff,      \* argument diff
    ds_i,      \* the index i of the loop
    data_X,    \* the rows of data_X: what each holds and how often it was written
    data_y     \* the rows of data_y

dataset_vars == <<ds_pc, mult, diff, ds_i, data_X, data_y>>

vars == <<catalog_vars, elastica_vars, poisson_vars, run_vars, pset_vars, sample_vars, dataset_vars>>

(***************************************************************************)
(* The three programs are specified one at a time: in the specification of *)
(* one, the variables of the other two stay as below.                      *)
(***************************************************************************)

NoFloat == Fin(0, 1)

ElasticaNotStarted ==
    /\ el_pc = "not started"
    /\ entry = "none"
    /\ individual = [EI0 |-> Unit, tree |-> <<>>]
    /\ X = [ndim |-> 1, n |-> 0]
    /\ is_bil_train = FALSE
    /\ return_best_sol = FALSE
    /\ penalty = [method |-> "none", reg_param |-> NoFloat]
    /\ solver = [fval |-> <<>>, alt |-> <<>>, sensitive |-> {},
                 fit |-> [e \in {Unit} |-> Unit]]
    /\ i = 0
    /\ EI0 = Unit
    /\ total_err = NoFloat
    /\ best_theta = <<>>
    /\ best_EI0 = <<>>
    /\ compiled = 0
    /\ solves = <<>>
    /\ result = NoFloat
    /\ objval = NoFloat
    /\ via = "direct"
    /\ owner = [EI0 |-> Unit, tree |-> <<>>]
    /\ calls = <<>>

Aliases == {"mate", "mutate", "expr_mut"}

NoConfig == [kind |-> "None"]

\* a generator of expressions bound to its keyword arguments, as the
\* attribute toolbox.expr_mut holds it
Generator(func, min_, max_) == [func |-> func, min_ |-> min_, max_ |-> max_]

NoGenerator == Generator("none", 0, 0)

\* the keyword arguments of a registration: expr, min_ and max_
Kargs(expr, min_, max_) == [expr |-> expr, min_ |-> min_, max_ |-> max_]

NoKargs == Kargs(NoGenerator, 0, 0)

Unregistered == [func |-> "unregistered", kargs |-> NoKargs, limits |-> <<>>]

PsetNotStarted ==
    /\ ps_pc = "not called"
    /\ primitive_spec = <<>>
    /\ spec_index = 0
    /\ pset = {}

SampleNotStarted ==
    /\ sm_pc = "not started"
    /\ sm_how = "none"
    /\ theta_true = <<>>
    /\ theta_in = 0
    /\ theta = <<>>
    /\ energy_field = <<>>
    /\ compared = <<>>
    /\ sm_fval = 0

DatasetNotStarted ==
    /\ ds_pc = "not called"
    /\ mult = 0
    /\ diff = 0
    /\ ds_i = 0
    /\ data_X = <<>>
    /\ data_y = <<>>

RunNotStarted ==
    /\ dr_pc = "not started"
    /\ app = "none"
    /\ config = NoConfig
    /\ toolbox = [a \in Aliases |-> Unregistered]
    /\ problem = [NINDIVIDUALS |-> 0, frac_elitist |-> NoFloat]
    /\ parents = <<>>
    /\ raw = <<>>
    /\ offspring = <<>>
    /\ bound_locals = {}

PoissonNotStarted ==
    /\ po_pc = "not started"
    /\ po_split = [n |-> 0, err |-> <<>>]
    /\ po_return_best_sol = FALSE
    /\ po_i = 0
    /\ po_total_err = NoFloat
    /\ po_compiled = 0
    /\ po_result = NoFloat
    /\ po_entry = "none"
    /\ po_individual = <<>>
    /\ po_reg_param = NoFloat
    /\ po_objval = NoFloat


(***************************************************************************)
(* generate_primitive, one pass of its loops at a time                     *)
(***************************************************************************)

NoCall == [name |-> <<>>]

NoResult == Raise("not called")

\* one pass of the three nested loops: insert the entry, or propagate the
\* exception raised in the body
LoopPass ==
    /\ pc = "loop"
    /\ iteration <= num_triples(primitive)
    /\ LET a == triple(primitive, iteration)
           r == loop_body(primitive, a.category, a.dimension, a.rank,
                          max_dim_of(primitive))
       IN  IF r.exc # "none"
           THEN /\ pc' = "raised"
                /\ call_res' = Raise(r.exc)
                /\ UNCHANGED <<iteration, primitive_dictionary>>
           ELSE /\ primitive_dictionary' =
                    put(primitive_dictionary, r.val.name, r.val.params)
                /\ iteration' = iteration + 1
                /\ UNCHANGED <<pc, call_res>>
    /\ UNCHANGED <<coch_primitives, primitives, merged, primitive>>
    /\ UNCHANGED <<elastica_vars, poisson_vars, run_vars, pset_vars, sample_vars, dataset_vars>>

\* return primitive_dictionary
Return ==
    /\ pc = "loop"
    /\ iteration > num_triples(primitive)
    /\ call_res' = Ok(primitive_dictionary)
    /\ pc' = "returned"
    /\ UNCHANGED <<coch_primitives, primitives, merged, primitive, iteration,
                   primitive_dictionary>>
    /\ UNCHANGED <<elastica_vars, poisson_vars, run_vars, pset_vars, sample_vars, dataset_vars>>

(***************************************************************************)
(* Building the catalog (module level of primitives.py)                    *)
(***************************************************************************)

\* coch_primitives = []; primitives = scalar_primitives
InitCatalog ==
    /\ pc = "generate"
    /\ coch_primitives = <<>>
    /\ primitives = scalar_primitives
    /\ merged = 0
    /\ primitive = NoCall
    /\ iteration = 0
    /\ primitive_dictionary = <<>>
    /\ call_res = NoResult

Init ==
    /\ RunNotStarted
    /\ DatasetNotStarted
    /\ SampleNotStarted
    /\ PsetNotStarted
    /\ InitCatalog
    /\ ElasticaNotStarted
    /\ PoissonNotStarted

\* generate_primitive(<family>): enter the function for the next family
Generate ==
    /\ pc = "generate"
    /\ primitive' = families[Len(coch_primitives) + 1]
    /\ iteration' = 1
    /\ primitive_dictionary' = <<>>
    /\ call_res' = NoResult
    /\ pc' = "loop"
    /\ UNCHANGED <<coch_primitives, primitives, merged>>
    /\ UNCHANGED <<elastica_vars, poisson_vars, run_vars, pset_vars, sample_vars, dataset_vars>>

\* coch_primitives.append(<the returned dictionary>)
AppendFamily ==
    /\ pc = "returned"
    /\ coch_primitives' = Append(coch_primitives, call_res.val)
    /\ pc' = IF Len(coch_primitives) + 1 = Len(families)
             THEN "merge" ELSE "generate"
    /\ UNCHANGED <<primitives, merged, primitive, iteration, primitive_dictionary,
                   call_res>>
    /\ UNCHANGED <<elastica_vars, poisson_vars, run_vars, pset_vars, sample_vars, dataset_vars>>

\* for primitive in coch_primitives: primitives = primitives | primitive
Merge ==
    /\ pc = "merge"
    /\ merged < Len(coch_primitives)
    /\ primitives' = merge(primitives, coch_primitives[merged + 1])
    /\ merged' = merged + 1
    /\ UNCHANGED <<pc, coch_primitives, primitive, iteration, primitive_dictionary,
                   call_res>>
    /\ UNCHANGED <<elastica_vars, poisson_vars, run_vars, pset_vars, sample_vars, dataset_vars>>

\* primitives = scalar_primitives | primitives
FinalMerge ==
    /\ pc = "merge"
    /\ merged = Len(coch_primitives)
    /\ primitives' = merge(scalar_primitives, primitives)
    /\ pc' = "imported"
    /\ UNCHANGED <<coch_primitives, merged, primitive, iteration, primitive_dictionary,
                   call_res>>
    /\ UNCHANGED <<elastica_vars, poisson_vars, run_vars, pset_vars, sample_vars, dataset_vars>>

Next ==
    \/ Generate
    \/ LoopPass
    \/ Return
    \/ AppendFamily
    \/ Merge
    \/ FinalMerge

Spec == Init /\ [][Next]_vars

(***************************************************************************)
(* generate_primitive on a descriptor of the caller's choice               *)
(***************************************************************************)

\* the elements of seq at the positions in S, in order
RECURSIVE pick(_, _, _)
pick(seq, S, k) ==
    IF k > Len(seq) THEN <<>>
    ELSE (IF k \in S THEN <<seq[k]>> ELSE <<>>) \o pick(seq, S, k + 1)

Injective(s) == \A k, j \in 1..Len(s) : s[k] = s[j] => k = j

\* non-empty tuples without repetition over the elements of S
Tuples(S) ==
    {s \in UNION {[1..n -> S] : n \in 1..Cardinality(S)} : Injective(s)}

AllRanks == <<SC, <<"V">>, <<"T">>, VT>>

RankTuples == {pick(AllRanks, S, 1) : S \in (SUBSET (1..4)) \ {{}}}

\* one shipped family for each combination of mapping rules and inputs
Templates ==
    {add_coch, coboundary, codifferential, tr_coch, mul_FT, mul_VT, star,
     inner_product}

\* the descriptors of these families, over any declared attribute sets
Descriptors ==
    {[f EXCEPT !.category = c, !.dimension = d, !.rank = r] :
        f \in Templates, c \in Tuples(Categories),
        d \in Tuples(Range(Dims012)), r \in RankTuples}

\* the call enters generate_primitive with its argument
InitCall ==
    /\ RunNotStarted
    /\ DatasetNotStarted
    /\ SampleNotStarted
    /\ PsetNotStarted
    /\ pc = "loop"
    /\ coch_primitives = <<>>
    /\ primitives = scalar_primitives
    /\ merged = 0
    /\ primitive \in Descriptors
    /\ iteration = 1
    /\ primitive_dictionary = <<>>
    /\ call_res = NoResult
    /\ ElasticaNotStarted
    /\ PoissonNotStarted

NextCall ==
    \/ LoopPass
    \/ Return

SpecCall == InitCall /\ [][NextCall]_vars

(***************************************************************************)
(* The evaluator of apps/stgp_elastica.py                                  *)
(***************************************************************************)

\* largest number of samples of a split
MaxSamples == 3

\* the error a sample gets when its fval is NaN
Sentinel == 100

\* per-sample errors an inner solve can yield: sums of squares, so finite and
\* non-negative (small, ordinary, larger than the sentinel), +inf or NaN
Errors == {Fin(3, 1), Fin((3 * Unit) \div 2, 1), Fin(101 * Unit, 1), Inf, NaN}

\* X.ndim == 1 is one 1-D sample; X.ndim == 2 is X.n rows
Splits == {[ndim |-> 1, n |-> 1]} \cup {[ndim |-> 2, n |-> n] : n \in 1..MaxSamples}

\* the values of EI0: the default np.ones(1) of creator.Individual and two
\* other values
EI0s == {Unit, 2 * Unit, 3 * Unit}

\* the individuals: a tree and the attribute EI0
Individuals == [EI0 : {Unit, 2 * Unit}, tree : Trees]

Penalties ==
    {[method |-> m, reg_param |-> Fin(Unit \div 10, 1)] :
        m \in {"primitive", "length", "none"}}

NoPenalty == [method |-> "none", reg_param |-> NoFloat]

\* a call of eval_MSE or of eval_fitness, with its arguments
InitElastica ==
    /\ RunNotStarted
    /\ DatasetNotStarted
    /\ SampleNotStarted
    /\ PsetNotStarted
    /\ el_pc = "call"
    /\ entry \in {"eval_MSE", "eval_fitness"}
    /\ individual \in Individuals
    /\ X \in Splits
    /\ is_bil_train \in BOOLEAN
    /\ return_best_sol \in (IF entry = "eval_MSE" THEN BOOLEAN ELSE {FALSE})
    /\ penalty \in (IF entry = "eval_fitness" THEN Penalties ELSE {NoPenalty})
    /\ solver \in {[fval |-> f, alt |-> f, sensitive |-> {},
                     fit |-> [e \in EI0s |-> 3 * Unit]] :
                        f \in [1..X.n -> Errors]}
    /\ i = 0
    /\ EI0 = Unit
    /\ total_err = NoFloat
    /\ best_theta = <<>>
    /\ best_EI0 = <<>>
    /\ compiled = 0
    /\ solves = <<>>
    /\ result = NoFloat
    /\ objval = NoFloat
    /\ via = "direct"
    /\ owner = individual
    /\ calls = <<>>
    /\ InitCatalog
    /\ PoissonNotStarted

\* energy_func = toolbox.compile(expr=individual): one more compilation of
\* the tree
compile_mut(n) == n + 2
compile(n) == n + 1

\* eval_MSE up to its loop: compile the individual, total_err = 0.,
\* EI0 = individual.EI0, and a 1-D X is wrapped into one sample
Enter ==
    /\ el_pc = "call"
    /\ compiled' = compile(compiled)
    /\ total_err' = Fin(0, 1)
    /\ best_theta' = <<>>
    /\ best_EI0' = <<>>
    /\ EI0' = individual.EI0
    /\ i' = 0
    /\ el_pc' = "loop"
    /\ UNCHANGED <<entry, individual, X, is_bil_train, return_best_sol,
                   penalty, solver, solves, result, objval>>
    /\ UNCHANGED <<catalog_vars, poisson_vars, driver_vars, run_vars, pset_vars, sample_vars, dataset_vars>>

\* total_err when fval is NaN
nan_total(total, fval) == Fin(Sentinel * Unit, 1)

\* the bilevel fit on every sample
use_bilevel_mut(index, bil_train) == bil_train

\* if i == 0 and is_bil_train
use_bilevel(index, bil_train) == index = 0 /\ bil_train

\* the body of the loop for sample i: the bilevel fit on the first sample
\* when is_bil_train, else the plain minimisation; then the NaN test
Sample ==
    /\ el_pc = "loop"
    /\ i < X.n
    /\ LET bilevel == use_bilevel(i, is_bil_train)
           fval == IF EI0 \in solver.sensitive
                   THEN solver.alt[i + 1] ELSE solver.fval[i + 1]
           EI0_new == IF bilevel THEN solver.fit[EI0] ELSE EI0
       IN  /\ EI0' = EI0_new
           /\ individual' =
                IF bilevel THEN [individual EXCEPT !.EI0 = EI0_new]
                ELSE individual
           /\ owner' =
                IF bilevel /\ via # "pool" THEN [owner EXCEPT !.EI0 = EI0_new]
                ELSE owner
           /\ solves' = Append(solves,
                [i |-> i, how |-> IF bilevel THEN "bilevel" ELSE "minimize",
                 EI0 |-> EI0])
           /\ best_theta' =
                IF return_best_sol THEN Append(best_theta, i) ELSE best_theta
           /\ best_EI0' =
                IF return_best_sol THEN Append(best_EI0, EI0_new) ELSE best_EI0
           /\ IF isnan(fval)
              THEN /\ total_err' = nan_total(total_err, fval)
                   /\ el_pc' = "break"
                   /\ i' = i
              ELSE /\ total_err' = fadd(total_err, fval)
                   /\ el_pc' = "loop"
                   /\ i' = i + 1
    /\ UNCHANGED <<entry, X, is_bil_train, return_best_sol, penalty, solver,
                   compiled, result, objval>>
    /\ UNCHANGED <<catalog_vars, poisson_vars, via, calls, run_vars, pset_vars, sample_vars, dataset_vars>>

AfterLoop == (el_pc = "loop" /\ i = X.n) \/ el_pc = "break"

\* total_err *= 1/(X.ndim)
normalise(total, ndim, n) == fdiv(total, ndim)

\* after the loop: return the solutions, or normalise total_err
Normalise ==
    /\ AfterLoop
    /\ IF return_best_sol
       THEN /\ result' = [best_theta |-> best_theta, best_EI0 |-> best_EI0]
            /\ el_pc' = "done"
            /\ UNCHANGED total_err
       ELSE /\ total_err' = normalise(total_err, X.ndim, X.n)
            /\ el_pc' = "normalised"
            /\ UNCHANGED result
    /\ UNCHANGED <<entry, individual, X, is_bil_train, return_best_sol,
                   penalty, solver, i, EI0, best_theta, best_EI0, compiled,
                   solves, objval>>
    /\ UNCHANGED <<catalog_vars, poisson_vars, driver_vars, run_vars, pset_vars, sample_vars, dataset_vars>>

\* total_err = float("{:.5f}".format(total_err)); return total_err
RoundReturn ==
    /\ el_pc = "normalised"
    /\ total_err' = format5(total_err)
    /\ result' = format5(total_err)
    /\ el_pc' = IF entry = "eval_fitness" THEN "penalty" ELSE "done"
    /\ UNCHANGED <<entry, individual, X, is_bil_train, return_best_sol,
                   penalty, solver, i, EI0, best_theta, best_EI0, compiled,
                   solves, objval>>
    /\ UNCHANGED <<catalog_vars, poisson_vars, driver_vars, run_vars, pset_vars, sample_vars, dataset_vars>>

\* the objective with the branches of the two penalty methods swapped
penalised_mut(total, pen, tree) ==
    IF pen.method = "length"
    THEN LET indstr == PrimitiveTree_str(tree)
         IN  fadd(total, fmul(pen.reg_param,
                 max({count(indstr, primitives_strings[k]) :
                        k \in 1..Len(primitives_strings)})))
    ELSE IF pen.method = "primitive"
    THEN fadd(total, fmul(pen.reg_param, Len(tree)))
    ELSE total

\* objval of eval_fitness, from total_err, the penalty and the individual
penalised(total, pen, tree) ==
    IF pen.method = "primitive"
    THEN LET indstr == PrimitiveTree_str(tree)
         IN  fadd(total, fmul(pen.reg_param,
                 max({count(indstr, primitives_strings[k]) :
                        k \in 1..Len(primitives_strings)})))
    ELSE IF pen.method = "length"
    THEN fadd(total, fmul(pen.reg_param, Len(tree)))
    ELSE total

\* eval_fitness after eval_MSE returned: the complexity penalty
Penalise ==
    /\ el_pc = "penalty"
    /\ objval' = penalised(result, penalty, individual.tree)
    /\ el_pc' = "done"
    /\ UNCHANGED <<entry, individual, X, is_bil_train, return_best_sol,
                   penalty, solver, i, EI0, total_err, best_theta, best_EI0,
                   compiled, solves, result>>
    /\ UNCHANGED <<catalog_vars, poisson_vars, driver_vars, run_vars, pset_vars, sample_vars, dataset_vars>>

NextElastica ==
    \/ Enter
    \/ Sample
    \/ Normalise
    \/ RoundReturn
    \/ Penalise

SpecElastica == InitElastica /\ [][NextElastica]_vars

(***************************************************************************)
(* Evaluating an individual again.  The driver evaluates an individual,    *)
(* and evaluates it a second time: by a second call on the same object,    *)
(* after the first evaluation ran in a worker of the pool, or after the    *)
(* individual was written as a string and parsed back.                     *)
(***************************************************************************)

\* the characters re.split("[ \t\n\r\f\v(),]", string) splits at
Delimiters == {" ", "(", ")", ","}

\* the non-empty tokens of string from position p on, after the characters
\* of token
RECURSIVE tokens_from(_, _, _)
tokens_from(string, p, token) ==
    LET closed == IF token = <<>> THEN <<>> ELSE <<token>>
    IN  IF p > Len(string) THEN closed
        ELSE IF string[p] \in Delimiters
             THEN closed \o tokens_from(string, p + 1, <<>>)
             ELSE tokens_from(string, p + 1, Append(token, string[p]))

\* pset.mapping: the primitives and terminals of the pset, by name
pset_mapping == {int_coch, SinP0_node, ArcSinP0_node, AddCP0_node}

\* PrimitiveTree.from_string(string, pset): every token is looked up in
\* pset.mapping; a token that is neither there nor a Python expression
\* raises TypeError
from_string(string) ==
    LET tokens == tokens_from(string, 1, <<>>)
    IN  IF \A k \in 1..Len(tokens) : \E node \in pset_mapping : node.name = tokens[k]
        THEN Ok([k \in 1..Len(tokens) |->
                    CHOOSE node \in pset_mapping : node.name = tokens[k]])
        ELSE Raise("TypeError")

\* creator.Individual.from_string(string, pset): a new Individual, whose EI0
\* is the class attribute np.ones(1)
Individual_from_string(string) ==
    [EI0 |-> Unit, tree |-> from_string(string).val]

\* the individual a worker of the pool evaluates: a copy of the driver's
worker_copy(driver_individual) == driver_individual

\* the driver's individual after the map returned the fitness tuples
after_map(driver_individual, worker_individual) == driver_individual

\* errors and bilevel fits of the inner solves of the repeated evaluations
RepeatErrors == {Fin(3, 1), Fin((3 * Unit) \div 2, 1)}

RepeatFits ==
    {[e \in EI0s |-> 3 * Unit],
     [e \in EI0s |-> IF e = 3 * Unit THEN e ELSE e + Unit]}

\* the first evaluation: evaluate_train in a worker of the pool, or any call
\* of eval_fitness or eval_MSE by the driver
InitRepeat ==
    /\ RunNotStarted
    /\ DatasetNotStarted
    /\ SampleNotStarted
    /\ PsetNotStarted
    /\ el_pc = "call"
    /\ via \in {"direct", "pool", "reparse"}
    /\ entry \in (IF via = "pool" THEN {"eval_fitness"}
                  ELSE {"eval_MSE", "eval_fitness"})
    /\ owner \in Individuals
    /\ individual = (IF via = "pool" THEN worker_copy(owner) ELSE owner)
    /\ X \in Splits
    /\ is_bil_train \in (IF via = "pool" THEN {TRUE} ELSE BOOLEAN)
    /\ return_best_sol = FALSE
    /\ penalty \in (IF entry = "eval_fitness"
                    THEN {pen \in Penalties : pen.method = "length"}
                    ELSE {NoPenalty})
    /\ solver \in [fval : [1..X.n -> RepeatErrors],
                   alt : [1..X.n -> RepeatErrors],
                   sensitive : SUBSET {2 * Unit, 3 * Unit},
                   fit : RepeatFits]
    /\ i = 0
    /\ EI0 = Unit
    /\ total_err = NoFloat
    /\ best_theta = <<>>
    /\ best_EI0 = <<>>
    /\ compiled = 0
    /\ solves = <<>>
    /\ result = NoFloat
    /\ objval = NoFloat
    /\ calls = <<>>
    /\ InitCatalog
    /\ PoissonNotStarted

\* the first evaluation returned; the driver evaluates again: the same
\* object with the same arguments, the individual parsed back from its
\* string with the same arguments, or, after the map of the pool returned,
\* its own individual by eval_MSE(best, X_test, y_test, toolbox, S, theta_0)
Again ==
    /\ el_pc = "done"
    /\ calls = <<>>
    /\ calls' = <<[via |-> via,
                   value |-> IF entry = "eval_fitness" THEN objval ELSE result,
                   EI0 |-> individual.EI0]>>
    /\ individual' =
         IF via = "pool" THEN after_map(owner, individual)
         ELSE IF via = "reparse"
         THEN Individual_from_string(PrimitiveTree_str(individual.tree))
         ELSE individual
    /\ owner' = individual'
    /\ via' = "direct"
    /\ entry' = IF via = "pool" THEN "eval_MSE" ELSE entry
    /\ is_bil_train' = IF via = "pool" THEN FALSE ELSE is_bil_train
    /\ penalty' = IF via = "pool" THEN NoPenalty ELSE penalty
    /\ el_pc' = "call"
    /\ i' = 0
    /\ EI0' = Unit
    /\ total_err' = NoFloat
    /\ best_theta' = <<>>
    /\ best_EI0' = <<>>
    /\ compiled' = 0
    /\ solves' = <<>>
    /\ result' = NoFloat
    /\ objval' = NoFloat
    /\ UNCHANGED <<X, return_best_sol, solver>>
    /\ UNCHANGED <<catalog_vars, poisson_vars, run_vars, pset_vars, sample_vars, dataset_vars>>

NextRepeat ==
    \/ NextElastica
    \/ Again

SpecRepeat == InitRepeat /\ [][NextRepeat]_vars

(***************************************************************************)
(* eval_MSE of apps/stgp_poisson.py                                        *)
(***************************************************************************)

\* the module-level dataset sizes eval_MSE normalises by
num_sources == 3

num_samples_per_source == 4

PoissonSplits ==
    UNION {[n : {n}, err : [1..n -> Errors]] : n \in 1..MaxSamples}

\* the terminals of the Poisson primitive set
u_node == Node(<<"u">>, 0)

fk_node == Node(<<"f", "k">>, 0)

\* u
po_tree_terminal == <<u_node>>

\* SinP0(ArcSinP0(u))
po_tree_sin_arcsin == <<SinP0_node, ArcSinP0_node, u_node>>

\* AddCP0(SinP0(u), fk)
po_tree_add_sin == <<AddCP0_node, SinP0_node, u_node, fk_node>>

PoissonTrees == {po_tree_terminal, po_tree_sin_arcsin, po_tree_add_sin}

\* the strings eval_fitness counts in str(individual), in the order of the
\* assignments nMulFloat = indstr.count("MulF"), ...
counted_strings ==
    <<<<"M", "u", "l", "F">>,
      <<"A", "d", "d">>,
      <<"S", "u", "b">>,
      <<"D", "i", "v">>,
      <<"E", "x", "p", "F">>,
      <<"L", "o", "g", "F">>,
      <<"S", "i", "n", "F">>,
      <<"A", "r", "c", "s", "i", "n", "F">>,
      <<"A", "r", "c", "c", "o", "s", "F">>,
      <<"C", "o", "s", "F">>,
      <<"S", "q", "u", "a", "r", "e", "F">>,
      <<"S", "q", "r", "t", "F">>,
      <<"A", "d", "d", "P", "0">>,
      <<"A", "d", "d", "P", "1">>,
      <<"A", "d", "d", "P", "2">>,
      <<"S", "u", "b", "P", "0">>,
      <<"S", "u", "b", "P", "1">>,
      <<"S", "u", "b", "P", "2">>,
      <<"d", "e", "l", "P", "1">>,
      <<"d", "e", "l", "P", "2">>,
      <<"M", "u", "l", "P", "0">>,
      <<"M", "u", "l", "P", "1">>,
      <<"M", "u", "l", "P", "2">>,
      <<"M", "u", "l", "D", "0">>,
      <<"M", "u", "l", "D", "1">>,
      <<"M", "u", "l", "D", "2">>,
      <<"d", "P", "0">>,
      <<"d", "P", "1">>,
      <<"d", "D", "0">>,
      <<"d", "D", "1">>,
      <<"S", "t", "0">>,
      <<"S", "t", "1">>,
      <<"S", "t", "2">>,
      <<"I", "n", "v", "S", "t", "0">>,
      <<"I", "n", "v", "S", "t", "1">>,
      <<"I", "n", "v", "S", "t", "2">>,
      <<"1", "/", "2">>,
      <<"I", "n", "n", "0">>,
      <<"I", "n", "n", "1">>,
      <<"I", "n", "n", "2">>,
      <<"S", "i", "n", "F">>,
      <<"C", "o", "s", "F">>,
      <<"E", "x", "p", "F">>,
      <<"L", "o", "g", "F">>,
      <<"S", "q", "r", "t", "F">>,
      <<"S", "i", "n", "P", "0">>,
      <<"S", "i", "n", "P", "1">>,
      <<"S", "i", "n", "P", "2">>,
      <<"S", "i", "n", "D", "0">>,
      <<"S", "i", "n", "D", "1">>,
      <<"S", "i", "n", "D", "2">>,
      <<"A", "r", "c", "s", "i", "n", "P", "0">>,
      <<"A", "r", "c", "s", "i", "n", "P", "1">>,
      <<"A", "r", "c", "s", "i", "n", "P", "2">>,
      <<"A", "r", "c", "s", "i", "n", "D", "0">>,
      <<"A", "r", "c", "s", "i", "n", "D", "1">>,
      <<"A", "r", "c", "s", "i", "n", "D", "2">>,
      <<"C", "o", "s", "P", "0">>,
      <<"C", "o", "s", "P", "1">>,
      <<"C", "o", "s", "P", "2">>,
      <<"C", "o", "s", "D", "0">>,
      <<"C", "o", "s", "D", "1">>,
      <<"C", "o", "s", "D", "2">>,
      <<"A", "r", "c", "c", "o", "s", "P", "0">>,
      <<"A", "r", "c", "c", "o", "s", "P", "1">>,
      <<"A", "r", "c", "c", "o", "s", "P", "2">>,
      <<"A", "r", "c", "c", "o", "s", "D", "0">>,
      <<"A", "r", "c", "c", "o", "s", "D", "1">>,
      <<"A", "r", "c", "c", "o", "s", "D", "2">>,
      <<"E", "x", "p", "P", "0">>,
      <<"E", "x", "p", "P", "1">>,
      <<"E", "x", "p", "P", "2">>,
      <<"E", "x", "p", "D", "0">>,
      <<"E", "x", "p", "D", "1">>,
      <<"E", "x", "p", "D", "2">>,
      <<"L", "o", "g", "P", "0">>,
      <<"L", "o", "g", "P", "1">>,
      <<"L", "o", "g", "P", "2">>,
      <<"L", "o", "g", "D", "0">>,
      <<"L", "o", "g", "D", "1">>,
      <<"L", "o", "g", "D", "2">>,
      <<"S", "q", "r", "t", "P", "0">>,
      <<"S", "q", "r", "t", "P", "1">>,
      <<"S", "q", "r", "t", "P", "2">>,
      <<"S", "q", "r", "t", "D", "0">>,
      <<"S", "q", "r", "t", "D", "1">>,
      <<"S", "q", "r", "t", "D", "2">>,
      <<"S", "q", "u", "a", "r", "e", "P", "0">>,
      <<"S", "q", "u", "a", "r", "e", "P", "1">>,
      <<"S", "q", "u", "a", "r", "e", "P", "2">>,
      <<"S", "q", "u", "a", "r", "e", "D", "0">>,
      <<"S", "q", "u", "a", "r", "e", "D", "1">>,
      <<"S", "q", "u", "a", "r", "e", "D", "2">>>>

\* the counts nMulFloat, nAdd, ... of eval_fitness
counts(indstr) ==
    [k \in 1..Len(counted_strings) |-> count(indstr, counted_strings[k])]

\* objval = total_err + reg_param*max((nAddP0, nMulFloat, ...))
po_penalised_mut(total, reg_param, tree) == total
po_penalised(total, reg_param, tree) ==
    LET n == counts(PrimitiveTree_str(tree))
    IN  fadd(total, fmul(reg_param, max({n[k] : k \in 1..Len(n)})))

InitPoisson ==
    /\ RunNotStarted
    /\ DatasetNotStarted
    /\ SampleNotStarted
    /\ PsetNotStarted
    /\ po_pc = "call"
    /\ po_entry \in {"eval_MSE", "eval_fitness"}
    /\ po_individual \in PoissonTrees
    /\ po_reg_param \in (IF po_entry = "eval_fitness"
                          THEN {Fin(Unit \div 10, 1)} ELSE {NoFloat})
    /\ po_objval = NoFloat
    /\ po_split \in PoissonSplits
    /\ po_return_best_sol \in (IF po_entry = "eval_MSE" THEN BOOLEAN ELSE {FALSE})
    /\ po_i = 0
    /\ po_total_err = NoFloat
    /\ po_compiled = 0
    /\ po_result = NoFloat
    /\ InitCatalog
    /\ ElasticaNotStarted

\* eval_MSE up to its loop: compile the individual, total_err = 0.
PoissonEnter ==
    /\ po_pc = "call"
    /\ po_compiled' = compile(po_compiled)
    /\ po_total_err' = Fin(0, 1)
    /\ po_i' = 0
    /\ po_pc' = "loop"
    /\ UNCHANGED <<po_split, po_return_best_sol, po_result>>
    /\ UNCHANGED <<po_entry, po_individual, po_reg_param, po_objval>>
    /\ UNCHANGED <<catalog_vars, elastica_vars, run_vars, pset_vars, sample_vars, dataset_vars>>

clamp_mut(current_err) ==
    IF fgt(current_err, Fin(Sentinel * Unit, 1))
    THEN Fin(Sentinel * Unit, 1) ELSE current_err

\* if current_err > 100 or math.isnan(current_err): current_err = 100
clamp(current_err) ==
    IF fgt(current_err, Fin(Sentinel * Unit, 1)) \/ isnan(current_err)
    THEN Fin(Sentinel * Unit, 1) ELSE current_err

\* the body of the loop for sample i: minimise, return the solution when
\* return_best_sol, else clamp the squared error and add it to total_err
PoissonSample ==
    /\ po_pc = "loop"
    /\ po_i < po_split.n
    /\ IF po_return_best_sol
       THEN /\ po_result' = [x |-> po_i]
            /\ po_pc' = "done"
            /\ UNCHANGED <<po_total_err, po_i>>
       ELSE /\ po_total_err' = fadd(po_total_err, clamp(po_split.err[po_i + 1]))
            /\ po_i' = po_i + 1
            /\ UNCHANGED <<po_pc, po_result>>
    /\ UNCHANGED <<po_split, po_return_best_sol, po_compiled>>
    /\ UNCHANGED <<po_entry, po_individual, po_reg_param, po_objval>>
    /\ UNCHANGED <<catalog_vars, elastica_vars, run_vars, pset_vars, sample_vars, dataset_vars>>

\* total_err *= 1/(num_sources*num_samples_per_source); return total_err
PoissonReturn ==
    /\ po_pc = "loop"
    /\ po_i = po_split.n
    /\ po_total_err' = fdiv(po_total_err, num_sources * num_samples_per_source)
    /\ po_result' = fdiv(po_total_err, num_sources * num_samples_per_source)
    /\ po_pc' = IF po_entry = "eval_fitness" THEN "penalise" ELSE "done"
    /\ UNCHANGED <<po_split, po_return_best_sol, po_i, po_compiled>>
    /\ UNCHANGED <<po_entry, po_individual, po_reg_param, po_objval>>
    /\ UNCHANGED <<catalog_vars, elastica_vars, run_vars, pset_vars, sample_vars, dataset_vars>>

\* eval_fitness after eval_MSE has returned: the counts of the primitives
\* and the objective value
PoissonPenalise ==
    /\ po_pc = "penalise"
    /\ po_objval' = po_penalised(po_result, po_reg_param, po_individual)
    /\ po_pc' = "done"
    /\ UNCHANGED <<po_split, po_return_best_sol, po_i, po_total_err,
                   po_compiled, po_result, po_entry, po_individual,
                   po_reg_param>>
    /\ UNCHANGED <<catalog_vars, elastica_vars, run_vars, pset_vars, sample_vars, dataset_vars>>

NextPoisson ==
    \/ PoissonEnter
    \/ PoissonSample
    \/ PoissonReturn
    \/ PoissonPenalise

SpecPoisson == InitPoisson /\ [][NextPoisson]_vars

(***************************************************************************)
(* Properties of the catalog                                               *)
(***************************************************************************)

Imported == pc = "imported"

Building == pc \in {"generate", "loop", "returned", "merge"}

\* the names family + category + dimension + rank over the declared sets,
\* the rank SC written as the empty string
DeclaredNames(fam) ==
    {fam.name \o <<c>> \o <<d>> \o (IF r = SC THEN <<>> ELSE r) :
        c \in Range(fam.category), d \in Range(fam.dimension),
        r \in Range(fam.rank)}

\* a family whose three mapping rules are the identity
Trivial(fam) ==
    /\ fam.map_category = "identity"
    /\ fam.map_dimension = "identity"
    /\ fam.map_rank = "identity"

OverP0SC(fam) ==
    /\ fam.category = <<"P">>
    /\ fam.dimension = <<"0">>
    /\ fam.rank = <<SC>>

RECURSIVE SumSizes(_, _)
SumSizes(dicts, n) ==
    IF n = 0 THEN 0 ELSE Cardinality(DOMAIN dicts[n]) + SumSizes(dicts, n - 1)

\* C2: no two instantiations of the shipped catalog share a name: every merge
\* adds only new keys, each family contributes one name per declared triple,
\* and the final mapping holds 13 + 152 = 165 primitives.
C2_NoNameCollision ==
    /\ Building \/ Imported
    /\ \A k \in 1..Len(coch_primitives) :
        Cardinality(DOMAIN coch_primitives[k]) = num_triples(families[k])
    /\ Cardinality(DOMAIN primitives) =
        Cardinality(DOMAIN scalar_primitives) + SumSizes(coch_primitives, merged)
    /\ Imported =>
        /\ Cardinality(DOMAIN scalar_primitives) = 13
        /\ SumSizes(coch_primitives, Len(coch_primitives)) = 152
        /\ Cardinality(DOMAIN primitives) = 165

C2_Witness ==
    /\ pc = "imported"
    /\ merged = 19
    /\ Cardinality(DOMAIN primitives) = 165

\* the triples on which the body of the loop of generate_primitive raises
InvalidTriples(fam) ==
    {t \in 1..num_triples(fam) :
        LET a == triple(fam, t)
        IN  loop_body(fam, a.category, a.dimension, a.rank,
                      max_dim_of(fam)).exc # "none"}

ValidNames(fam) ==
    {LET a == triple(fam, t)
     IN  primitive_name(fam, a.category, a.dimension, rank_suffix(a.rank)) :
        t \in (1..num_triples(fam)) \ InvalidTriples(fam)}

\* C3: a call of generate_primitive on a family whose cross-product contains
\* an invalid combination does not raise, and returns exactly the valid
\* instantiations of the family.
C3_InvalidCombinationSkipped ==
    InvalidTriples(primitive) # {} =>
        /\ pc # "raised"
        /\ pc = "returned" => DOMAIN call_res.val = ValidNames(primitive)

\* the names family + category + dimension + rank of the type universe
NamesOf(family) ==
    {family \o <<t.category>> \o str(t.dimension) \o t.rank : t \in CochainTypes}

Cochain(category, dimension, rank) ==
    [kind |-> "cochain", category |-> category, dimension |-> dimension,
     rank |-> rank]

Opposite(category) == IF category = "P" THEN "D" ELSE "P"

d_str == <<"d">>

del_str == <<"d", "e", "l">>

\* C4: every coboundary primitive 'd' takes a scalar-rank cochain of category
\* c and dimension d in {0,1} to category c and dimension d+1; every
\* codifferential primitive 'del' takes dimension d in {1,2} to d-1; the
\* imported catalog holds these for both categories and no 'd' of input
\* dimension 2 and no 'del' of input dimension 0.
C4_CoboundaryCodifferential ==
    /\ \A c \in Categories, k \in Dimensions :
        LET n == d_str \o <<c>> \o str(k)
        IN  /\ n \in DOMAIN primitives =>
                /\ k \in {0, 1}
                /\ primitives[n].in_types = <<Cochain(c, k, <<>>)>>
                /\ primitives[n].out_type = Cochain(c, k + 1, <<>>)
            /\ (Imported /\ k \in {0, 1}) => n \in DOMAIN primitives
    /\ \A c \in Categories, k \in Dimensions :
        LET n == del_str \o <<c>> \o str(k)
        IN  /\ n \in DOMAIN primitives =>
                /\ k \in {1, 2}
                /\ primitives[n].in_types = <<Cochain(c, k, <<>>)>>
                /\ primitives[n].out_type = Cochain(c, k - 1, <<>>)
            /\ (Imported /\ k \in {1, 2}) => n \in DOMAIN primitives
    /\ (DOMAIN primitives) \cap (NamesOf(d_str) \cup NamesOf(del_str))
        \subseteq {f \o <<c>> \o str(k) :
                     f \in {d_str, del_str}, c \in Categories, k \in Dimensions}
    /\ Len(coch_primitives) >= 3 =>
        DOMAIN coch_primitives[3] =
            {d_str \o <<c>> \o str(k) : c \in Categories, k \in {0, 1}}
    /\ Len(coch_primitives) >= 4 =>
        DOMAIN coch_primitives[4] =
            {del_str \o <<c>> \o str(k) : c \in Categories, k \in {1, 2}}

C4_Witness ==
    /\ pc = "imported"
    /\ primitives[<<"d", "P", "1">>].out_type = Cochain("P", 2, <<>>)
    /\ primitives[<<"d", "e", "l", "D", "1">>].out_type = Cochain("D", 0, <<>>)
    /\ <<"d", "P", "2">> \notin DOMAIN primitives
    /\ <<"d", "e", "l", "P", "0">> \notin DOMAIN primitives

St_str == <<"S", "t">>

\* the Hodge-star entries of the catalog
StarNames == (DOMAIN primitives) \cap NamesOf(St_str)

\* the domain of the star and its type map, read off the catalog
StarDomain == {primitives[n].in_types[1] : n \in StarNames}

StarOut(T) ==
    primitives[CHOOSE n \in StarNames : primitives[n].in_types[1] = T].out_type

\* C5: every Hodge-star primitive maps category c, dimension d, rank r to the
\* opposite category, dimension 2-d and rank r; the imported catalog has 12 of
\* them, the output type of each is in the star's domain, and the type map
\* applied twice is the identity.
C5_StarInvolution ==
    /\ \A n \in StarNames :
        /\ Len(primitives[n].in_types) = 1
        /\ LET T == primitives[n].in_types[1]
           IN  /\ T \in CochainTypes
               /\ n = St_str \o <<T.category>> \o str(T.dimension) \o T.rank
               /\ primitives[n].out_type =
                    Cochain(Opposite(T.category), 2 - T.dimension, T.rank)
    /\ Imported =>
        /\ Cardinality(StarNames) = 12
        /\ Cardinality(StarDomain) = 12
        /\ \A T \in StarDomain :
            /\ StarOut(T) \in StarDomain
            /\ StarOut(StarOut(T)) = T

C5_Witness ==
    /\ pc = "imported"
    /\ primitives[<<"S", "t", "P", "0", "T">>].in_types = <<Cochain("P", 0, <<"T">>)>>
    /\ primitives[<<"S", "t", "P", "0", "T">>].out_type = Cochain("D", 2, <<"T">>)
    /\ primitives[<<"S", "t", "D", "2", "T">>].out_type = Cochain("P", 0, <<"T">>)

\* C6: the catalog build never raises, and every input type and output type
\* of every primitive is float or a cochain type with category in {P,D},
\* dimension in 0..2 and scalar, vector or tensor rank.
C6_TypesInUniverse ==
    /\ Building \/ Imported
    /\ \A k \in 1..Len(coch_primitives) :
        DOMAIN coch_primitives[k] = DeclaredNames(families[k])
    /\ \A n \in DOMAIN primitives :
        /\ \A k \in 1..Len(primitives[n].in_types) :
            LET T == primitives[n].in_types[k]
            IN  \/ T = FloatType
                \/ /\ T.category \in {"P", "D"}
                   /\ T.dimension \in {0, 1, 2}
                   /\ T.rank \in {<<>>, <<"V">>, <<"T">>}
        /\ LET T == primitives[n].out_type
           IN  \/ T = FloatType
               \/ /\ T.category \in {"P", "D"}
                  /\ T.dimension \in {0, 1, 2}
                  /\ T.rank \in {<<>>, <<"V">>, <<"T">>}

C6_Witness ==
    /\ pc = "imported"
    /\ primitives[<<"M", "v", "D", "2", "V", "T">>].in_types =
        <<Cochain("D", 2, <<"V">>), Cochain("D", 2, <<"T">>)>>
    /\ primitives[<<"I", "n", "n", "P", "1", "T">>].out_type = FloatType

(***************************************************************************)
(* Properties of the evaluators                                            *)
(***************************************************************************)

SentinelUnits == Sentinel * Unit

\* the Poisson samples whose squared error is NaN
PoissonNaN == {j \in 1..po_split.n : isnan(po_split.err[j])}

PoissonReturned == po_pc = "done" /\ ~po_return_best_sol

\* the sum over the first m samples of: 100 for a NaN sample, its own error
\* for any other sample
RECURSIVE PoissonOwnSum(_)
PoissonOwnSum(m) ==
    IF m = 0 THEN 0
    ELSE PoissonOwnSum(m - 1) +
         (IF isnan(po_split.err[m]) THEN SentinelUnits ELSE po_split.err[m].num)

\* the sum over the first m samples of: its own error for a finite error of
\* at most 100, and 100 for any other sample (NaN, +inf, above 100)
RECURSIVE PoissonCappedSum(_)
PoissonCappedSum(m) ==
    IF m = 0 THEN 0
    ELSE PoissonCappedSum(m - 1) +
         (IF isfinite(po_split.err[m]) /\ po_split.err[m].num <= SentinelUnits
          THEN po_split.err[m].num ELSE SentinelUnits)

\* C7 as stated: with a NaN sample in a split whose other errors are finite,
\* the loop runs over every sample, the NaN sample adds 100 and every other
\* sample adds its own error, and the returned total is not NaN.
C7_NaNSentinelOwnErrors ==
    (PoissonReturned /\ PoissonNaN # {}
        /\ \A j \in (1..po_split.n) \ PoissonNaN : isfinite(po_split.err[j])) =>
        /\ po_i = po_split.n
        /\ ~isnan(po_result)
        /\ feq(po_result,
               Fin(PoissonOwnSum(po_split.n), num_sources * num_samples_per_source))

\* C7 as amended: the loop runs over every sample; a NaN sample adds 100 and
\* every other sample adds its own error capped at 100; the returned total is
\* that sum times 1/(num_sources*num_samples_per_source), a finite number.
C7_NaNSentinelCappedErrors ==
    /\ po_pc = "loop" =>
        feq(po_total_err, Fin(PoissonCappedSum(po_i), 1))
    /\ PoissonReturned =>
        /\ po_i = po_split.n
        /\ isfinite(po_result)
        /\ feq(po_result,
               Fin(PoissonCappedSum(po_split.n), num_sources * num_samples_per_source))

C7_Witness ==
    /\ PoissonReturned
    /\ po_split.n = 3
    /\ isnan(po_split.err[2])
    /\ po_split.err[1] = Fin(3, 1)
    /\ po_split.err[3] = Fin((3 * Unit) \div 2, 1)
    /\ po_result = Fin(3 + SentinelUnits + (3 * Unit) \div 2, 12)

\* the elastica samples whose error fval is NaN
NaNSamples == {j \in 1..X.n : isnan(solver.fval[j])}

\* the sum over the first m samples of: 100 for a NaN sample, its fval for
\* any other sample
RECURSIVE OwnSum(_)
OwnSum(m) ==
    IF m = 0 THEN 0
    ELSE OwnSum(m - 1) +
         (IF isnan(solver.fval[m]) THEN SentinelUnits ELSE solver.fval[m].num)

\* C8: when exactly one sample of a multi-sample split yields NaN and the
\* others yield finite errors, the loop ends with every sample solved and
\* total_err, before normalisation, equal to 100 plus the errors of the others.
C8_NaNDoesNotAbortBatch ==
    (AfterLoop /\ X.n >= 2 /\ Cardinality(NaNSamples) = 1
        /\ \A j \in (1..X.n) \ NaNSamples : isfinite(solver.fval[j])) =>
        /\ Len(solves) = X.n
        /\ feq(total_err, Fin(OwnSum(X.n), 1))

\* C9: the total error returned by eval_MSE and the fitness returned by
\* eval_fitness are finite, whatever the samples' errors (NaN, +inf) are.
C9_NonFiniteReplaced ==
    (el_pc = "done" /\ ~return_best_sol) =>
        /\ isfinite(result)
        /\ entry = "eval_fitness" => isfinite(objval)

\* C10: before rounding, eval_MSE holds the mean of the per-sample errors,
\* their sum divided by the number of samples of X (stated for the calls
\* whose samples all yield finite errors).
C10_MeanOfSampleErrors ==
    (el_pc = "normalised" /\ \A j \in 1..X.n : isfinite(solver.fval[j])) =>
        feq(total_err, Fin(OwnSum(X.n), X.n))

\* C11: the Poisson eval_MSE returns the mean of the per-sample errors of the
\* split it was given, their sum divided by the number of samples of the split
\* (stated for the splits whose errors are all finite and at most 100).
C11_PoissonMeanOfSplit ==
    (PoissonReturned
        /\ \A j \in 1..po_split.n :
              isfinite(po_split.err[j]) /\ po_split.err[j].num <= SentinelUnits) =>
        feq(po_result, Fin(PoissonOwnSum(po_split.n), po_split.n))

\* the number of occurrences in str(individual) of the primitive name that
\* occurs most often
MaxOccurrences ==
    LET indstr == PrimitiveTree_str(individual.tree)
    IN  max({count(indstr, primitives_strings[k]) : k \in 1..Len(primitives_strings)})

FitnessReturned == el_pc = "done" /\ entry = "eval_fitness"

\* C12: eval_fitness returns total_err + reg_param * len(individual) for the
\* method 'length', total_err + reg_param * (the largest number of
\* occurrences of a primitive name in str(individual)) for the method
\* 'primitive' and total_err itself for any other method; the fitness is
\* never lower than total_err.
C12_PenalisedFitness ==
    FitnessReturned =>
        /\ penalty.method = "length" =>
             objval = fadd(result, fmul(penalty.reg_param, Len(individual.tree)))
        /\ penalty.method = "primitive" =>
             objval = fadd(result, fmul(penalty.reg_param, MaxOccurrences))
        /\ penalty.method \notin {"length", "primitive"} => objval = result
        /\ fle(result, objval)

C12_Witness ==
    /\ FitnessReturned
    /\ penalty.method = "primitive"
    /\ individual.tree = tree_sin_arcsin
    /\ MaxOccurrences = 2
    /\ result = Fin((3 * Unit) \div 2, 1)
    /\ objval = Fin((3 * Unit) \div 2 + 2 * (Unit \div 10), 1)

\* C13: in one call of eval_MSE with is_bil_train the bilevel fit runs once,
\* on sample 0 and before every plain minimisation; it stores the fitted EI0
\* on the individual and every later sample is minimised with that EI0.
\* Without is_bil_train every sample is minimised with individual.EI0 and
\* individual.EI0 is never written.
C13_BilevelOnceOnFirstSample ==
    /\ [](/\ \A k \in 1..Len(solves) :
                /\ solves[k].i = k - 1
                /\ solves[k].how = "bilevel" <=> (is_bil_train /\ k = 1)
          /\ (is_bil_train /\ Len(solves) >= 1) =>
                /\ individual.EI0 = solver.fit[solves[1].EI0]
                /\ \A k \in 2..Len(solves) : solves[k].EI0 = individual.EI0
          /\ (is_bil_train /\ el_pc \in {"normalised", "penalty", "done"}) =>
                Cardinality({k \in 1..Len(solves) : solves[k].how = "bilevel"}) = 1
          /\ ~is_bil_train =>
                \A k \in 1..Len(solves) : solves[k].EI0 = individual.EI0)
    /\ [][~is_bil_train => individual' = individual]_vars

C13_Witness ==
    /\ el_pc = "done"
    /\ is_bil_train
    /\ X.n = 3
    /\ Len(solves) = 3
    /\ solves[1] = [i |-> 0, how |-> "bilevel", EI0 |-> 2 * Unit]
    /\ solves[3] = [i |-> 2, how |-> "minimize", EI0 |-> 3 * Unit]
    /\ individual.EI0 = 3 * Unit

\* the second evaluation returned
EvaluatedAgain == Len(calls) = 1 /\ el_pc = "done"

\* the value the evaluation that just returned yields
Returned == IF entry = "eval_fitness" THEN objval ELSE result

\* C14: two calls of eval_fitness with is_bil_train (evaluate_train) on the
\* same individual, with the same data and the same inner solver, return the
\* same fitness.
C14_SameFitnessOnSecondCall ==
    (EvaluatedAgain /\ calls[1].via = "direct"
        /\ entry = "eval_fitness" /\ is_bil_train) =>
        objval = calls[1].value

\* C15: the individual parsed back from str(individual) is evaluated, on the
\* same data by the same function, to the value the original was evaluated to.
C15_RoundTripSameValue ==
    (EvaluatedAgain /\ calls[1].via = "reparse") => Returned = calls[1].value

\* C16: when evaluate_train ran in a worker of the pool, the EI0 fitted there
\* is on the driver's individual once the map has returned, and the driver's
\* later eval_MSE of that individual solves with the fitted EI0.
C16_FittedEI0InDriver ==
    /\ (calls = <<>> /\ via = "pool" /\ el_pc = "done") =>
          after_map(owner, individual).EI0 = individual.EI0
    /\ (Len(calls) = 1 /\ calls[1].via = "pool" /\ Len(solves) >= 1) =>
          solves[1].EI0 = calls[1].EI0

(***************************************************************************)
(* The application drivers: construction of the GPSymbRegProblem, the      *)
(* registration and decoration of the variation operators, and one         *)
(* application of mate or mutate once run() has started.                   *)
(***************************************************************************)

\* max_value of gp.staticLimit(key=operator.attrgetter("height"), max_value=17)
HeightLimit == 17

\* NINDIVIDUALS = 10 of stgp_poisson.py
NINDIVIDUALS == 10

\* frac_elitist = 0.1 of stgp_poisson.py
frac_elitist == Fin(Unit \div 10, 1)

\* population sizes a configuration gives
ConfigSizes == {10, 20}

\* elitist fractions a configuration gives: 0.1 and 0.2
ConfigFractions == {Fin(Unit \div 10, 1), Fin(Unit \div 5, 1)}

\* generators a configuration names for expr_mut
ConfigGenerators == {"gp.genFull", "gp.genGrow"}

\* the expr_mut_kargs a configuration gives
ConfigGeneratorKargs == {Kargs(NoGenerator, 1, 3), Kargs(NoGenerator, 2, 4)}

\* the configuration dictionaries (the keys the registrations and the problem read)
Configs ==
    [kind : {"dict"}, NINDIVIDUALS : ConfigSizes, frac_elitist : ConfigFractions,
     crossover : {"gp.cxOnePoint"}, mutate : {"gp.mutUniform"},
     expr_mut : ConfigGenerators, expr_mut_kargs : ConfigGeneratorKargs]

\* int(x) of a non-negative float
int_float(x) == (x.num \div x.den) \div Unit

\* toolbox.register(alias, func, **kargs): a new, undecorated entry
register(tb, alias, func, kargs) ==
    [tb EXCEPT ![alias] = [func |-> func, kargs |-> kargs, limits |-> <<>>]]

\* the value of toolbox.expr_mut: the function registered under expr_mut
\* bound to the keyword arguments it was registered with
expr_mut_of(tb) ==
    Generator(tb["expr_mut"].func, tb["expr_mut"].kargs.min_,
              tb["expr_mut"].kargs.max_)

\* eval of mutate kargs "{'expr': toolbox.expr_mut, 'pset': pset}": expr is
\* the value toolbox.expr_mut has when the string is evaluated
mutate_kargs_of(tb) == Kargs(expr_mut_of(tb), 0, 0)

\* toolbox.decorate(alias, gp.staticLimit(key=height, max_value=limit))
decorate_mut(tb, alias, limit) == tb
decorate(tb, alias, limit) ==
    [tb EXCEPT ![alias].limits = Append(@, limit)]

\* one gp.staticLimit wrapper: keep_inds are copies of the arguments, every
\* new individual over the limit becomes random.choice(keep_inds); choice[k]
\* is the index random.choice draws for the k-th individual
staticLimit(limit, keep_inds, new_inds, choice) ==
    [k \in 1..Len(new_inds) |->
        IF new_inds[k].height > limit THEN keep_inds[choice[k]] ELSE new_inds[k]]

\* the wrappers of an entry applied from the innermost one outwards
RECURSIVE limited(_, _, _, _)
limited(limits, keep_inds, new_inds, choice) ==
    IF limits = <<>> THEN new_inds
    ELSE limited(Tail(limits), keep_inds,
                 staticLimit(Head(limits), keep_inds, new_inds, choice), choice)

\* heights of the trees variation is applied to, and of what it builds
ParentHeights == {3, HeightLimit}

RawHeights == {3, HeightLimit, HeightLimit + 1}

\* the locals stgp_poisson assigns before the configuration block
entry_locals ==
    {"early_stopping", "plot_best", "plot_best_genealogy", "n_jobs", "n_splits",
     "start_method", "reg_param"}

\* the locals only the configuration block assigns
config_locals ==
    {"n_jobs", "n_splits", "start_method", "early_stopping", "reg_param", "min_",
     "max_", "mutate_fun", "mutate_kargs", "crossover_fun", "crossover_kargs",
     "expr_mut_fun", "expr_mut_kargs", "num_sources", "num_samples_per_source",
     "noise_param", "plot_best", "plot_best_genealogy"}

\* the locals read between the configuration block and GPproblem.run, in
\* the order of the reads
read_locals ==
    <<"noise_param", "num_samples_per_source", "num_sources", "reg_param",
      "n_jobs", "start_method", "plot_best", "plot_best_genealogy", "n_splits",
      "early_stopping">>

\* stgp_poisson.py is loaded: the problem is built with the module's
\* NINDIVIDUALS and frac_elitist, mate, expr_mut and mutate are registered
\* and mate and mutate are decorated
LoadPoisson ==
    /\ dr_pc = "start"
    /\ app = "poisson"
    /\ problem' = [NINDIVIDUALS |-> NINDIVIDUALS, frac_elitist |-> frac_elitist]
    /\ LET tb1 == register(toolbox, "mate", "gp.cxOnePoint", NoKargs)
           tb2 == register(tb1, "expr_mut", "gp.genGrow", Kargs(NoGenerator, 1, 3))
           tb3 == register(tb2, "mutate", "gp.mutUniform", mutate_kargs_of(tb2))
           tb4 == decorate(tb3, "mate", HeightLimit)
       IN  toolbox' = decorate(tb4, "mutate", HeightLimit)
    /\ dr_pc' = "loaded"
    /\ UNCHANGED <<app, config, parents, raw, offspring, bound_locals>>
    /\ UNCHANGED <<catalog_vars, elastica_vars, poisson_vars, pset_vars, sample_vars, dataset_vars>>

\* stgp_poisson(config) with a configuration: the problem's attributes are
\* overwritten, the keyword arguments are evaluated, mate, mutate and
\* expr_mut are registered again and mate and mutate are decorated again
ConfigurePoisson ==
    /\ dr_pc = "loaded"
    /\ config # NoConfig
    /\ problem' = [problem EXCEPT !.NINDIVIDUALS = config.NINDIVIDUALS]
    /\ LET mutate_kargs == mutate_kargs_of(toolbox)
           tb1 == register(toolbox, "mate", config.crossover, NoKargs)
           tb2 == register(tb1, "mutate", config.mutate, mutate_kargs)
           tb3 == register(tb2, "expr_mut", config.expr_mut, config.expr_mut_kargs)
           tb4 == decorate(tb3, "mate", HeightLimit)
       IN  toolbox' = decorate(tb4, "mutate", HeightLimit)
    /\ bound_locals' = entry_locals \cup config_locals
    /\ dr_pc' = "dataset"
    /\ UNCHANGED <<app, config, parents, raw, offspring>>
    /\ UNCHANGED <<catalog_vars, elastica_vars, poisson_vars, pset_vars, sample_vars, dataset_vars>>

\* stgp_poisson(None): the configuration block is skipped
SkipConfigPoisson ==
    /\ dr_pc = "loaded"
    /\ config = NoConfig
    /\ bound_locals' = entry_locals
    /\ dr_pc' = "dataset"
    /\ UNCHANGED <<app, config, toolbox, problem, parents, raw, offspring>>
    /\ UNCHANGED <<catalog_vars, elastica_vars, poisson_vars, pset_vars, sample_vars, dataset_vars>>

\* from the end of the configuration block to GPproblem.run: the dataset
\* is generated, the evaluations and the map are registered and run is
\* called; reading a local that holds no value raises UnboundLocalError
RunPoisson ==
    /\ dr_pc = "dataset"
    /\ dr_pc' = IF \A k \in 1..Len(read_locals) : read_locals[k] \in bound_locals
                THEN "run" ELSE "UnboundLocalError"
    /\ UNCHANGED <<app, config, toolbox, problem, parents, raw, offspring,
                   bound_locals>>
    /\ UNCHANGED <<catalog_vars, elastica_vars, poisson_vars, pset_vars, sample_vars, dataset_vars>>

\* stgp_elastica(config_file): expr_mut is registered, the keyword arguments
\* are evaluated, mate and mutate are registered and decorated
ConfigureElastica ==
    /\ dr_pc = "start"
    /\ app = "elastica"
    /\ LET tb1 == register(toolbox, "expr_mut", config.expr_mut, config.expr_mut_kargs)
           mutate_kargs == mutate_kargs_of(tb1)
           tb2 == register(tb1, "mate", config.crossover, NoKargs)
           tb3 == register(tb2, "mutate", config.mutate, mutate_kargs)
           tb4 == decorate(tb3, "mate", HeightLimit)
       IN  toolbox' = decorate(tb4, "mutate", HeightLimit)
    /\ dr_pc' = "configured"
    /\ UNCHANGED <<app, config, problem, parents, raw, offspring, bound_locals>>
    /\ UNCHANGED <<catalog_vars, elastica_vars, poisson_vars, pset_vars, sample_vars, dataset_vars>>

\* GPproblem = gps.GPSymbRegProblem(..., NINDIVIDUALS=NINDIVIDUALS, ...,
\* frac_elitist=frac_elitist, ...) with
\* frac_elitist = int(config_file["gp"]["frac_elitist"]*NINDIVIDUALS),
\* followed by GPproblem.run
RunElastica ==
    /\ dr_pc = "configured"
    /\ problem' =
          [NINDIVIDUALS |-> config.NINDIVIDUALS,
           frac_elitist |->
              Fin(int_float(fmul(config.frac_elitist, config.NINDIVIDUALS)) * Unit, 1)]
    /\ dr_pc' = "run"
    /\ UNCHANGED <<app, config, toolbox, parents, raw, offspring, bound_locals>>
    /\ UNCHANGED <<catalog_vars, elastica_vars, poisson_vars, pset_vars, sample_vars, dataset_vars>>

\* the individuals of one variation: origin tells whose copy a tree is
Tree(origin, height) == [origin |-> origin, height |-> height]

\* run() applies toolbox.mate(p1, p2) or toolbox.mutate(p1): the registered
\* function builds the raw children and the wrappers of the entry filter them
Vary ==
    /\ dr_pc = "run"
    /\ \E alias \in {"mate", "mutate"} :
          LET n == IF alias = "mate" THEN 2 ELSE 1
          IN  \E ph \in [1..n -> ParentHeights], rh \in [1..n -> RawHeights],
                 choice \in [1..n -> 1..n] :
                 LET ps == [k \in 1..n |-> Tree(<<"parent", k>>, ph[k])]
                     cs == [k \in 1..n |-> Tree(<<"child", k>>, rh[k])]
                 IN  /\ parents' = ps
                     /\ raw' = cs
                     /\ offspring' = limited(toolbox[alias].limits, ps, cs, choice)
    /\ dr_pc' = "varied"
    /\ UNCHANGED <<app, config, toolbox, problem, bound_locals>>
    /\ UNCHANGED <<catalog_vars, elastica_vars, poisson_vars, pset_vars, sample_vars, dataset_vars>>

InitDriver ==
    /\ PsetNotStarted
    /\ DatasetNotStarted
    /\ SampleNotStarted
    /\ InitCatalog
    /\ ElasticaNotStarted
    /\ PoissonNotStarted
    /\ dr_pc = "start"
    /\ app \in {"poisson", "elastica"}
    /\ config \in (IF app = "poisson" THEN {NoConfig} ELSE {}) \cup Configs
    /\ toolbox = [a \in Aliases |-> Unregistered]
    /\ problem = [NINDIVIDUALS |-> 0, frac_elitist |-> NoFloat]
    /\ parents = <<>>
    /\ raw = <<>>
    /\ offspring = <<>>
    /\ bound_locals = {}

NextDriver ==
    \/ LoadPoisson
    \/ ConfigurePoisson
    \/ SkipConfigPoisson
    \/ RunPoisson
    \/ ConfigureElastica
    \/ RunElastica
    \/ Vary

SpecDriver == InitDriver /\ [][NextDriver]_vars

(***************************************************************************)
(* Properties of the drivers                                               *)
(***************************************************************************)

RunStarted == dr_pc \in {"run", "varied"}

\* what remains of the limit's guarantee: both entries carry exactly one
\* wrapper with limit 17 when run() starts and no returned tree is higher
\* than its limit
HeightNeverExceeded ==
    /\ RunStarted =>
          /\ toolbox["mate"].limits = <<HeightLimit>>
          /\ toolbox["mutate"].limits = <<HeightLimit>>
    /\ dr_pc = "varied" =>
          \A k \in 1..Len(offspring) :
             /\ offspring[k].height <= HeightLimit
             /\ raw[k].height <= HeightLimit => offspring[k] = raw[k]
             /\ raw[k].height > HeightLimit =>
                   \E j \in 1..Len(parents) : offspring[k] = parents[j]

\* C17: in both apps, on every path that reaches run(), mate and mutate are
\* wrapped by the height limit 17, an offspring higher than 17 is replaced
\* by its corresponding unmodified parent (the k-th child by the k-th
\* parent), and no returned tree is higher than 17.
C17_RevertToCorrespondingParent ==
    /\ RunStarted =>
          /\ toolbox["mate"].limits = <<HeightLimit>>
          /\ toolbox["mutate"].limits = <<HeightLimit>>
    /\ dr_pc = "varied" =>
          \A k \in 1..Len(offspring) :
             /\ offspring[k].height <= HeightLimit
             /\ raw[k].height > HeightLimit => offspring[k] = parents[k]

\* the elitist fraction in force: the configuration's in stgp_elastica, the
\* module's frac_elitist in stgp_poisson (which reads no other)
fraction_in_force ==
    IF app = "elastica" THEN config.frac_elitist ELSE frac_elitist

\* C18: in both apps the elitist parameter handed to GPSymbRegProblem is the
\* integer count k = floor(frac_elitist * N), N being the population size
\* NINDIVIDUALS the run actually uses.
C18_ElitistParameterIsCount ==
    RunStarted =>
        feq(problem.frac_elitist,
            Fin(int_float(fmul(fraction_in_force, problem.NINDIVIDUALS)) * Unit, 1))

\* the elastica driver alone hands the count
ElasticaHandsCount ==
    (RunStarted /\ app = "elastica") =>
        feq(problem.frac_elitist,
            Fin(int_float(fmul(config.frac_elitist, config.NINDIVIDUALS)) * Unit, 1))

(***************************************************************************)
(* One evaluation call of either application                               *)
(***************************************************************************)

InitEval ==
    \/ InitElastica
    \/ InitPoisson

NextEval ==
    \/ NextElastica
    \/ NextPoisson

SpecEval == InitEval /\ [][NextEval]_vars

(***************************************************************************)
(* Properties of one evaluation call of either application                 *)
(***************************************************************************)

\* C19: in one evaluation call (eval_fitness or eval_MSE, in either app) the
\* tree is compiled exactly once and before the sample loop starts: before
\* the compilation no sample has been solved, and from the entry of the loop
\* to the return the number of compilations is 1, whatever the number of
\* samples, with or without the bilevel fit, with or without NaN errors.
C19_CompiledOncePerCall ==
    /\ el_pc = "call" => (compiled = 0 /\ solves = <<>> /\ i = 0)
    /\ el_pc \in {"loop", "break", "normalised", "done"} => compiled = 1
    /\ po_pc = "call" => (po_compiled = 0 /\ po_i = 0)
    /\ po_pc \in {"loop", "penalise", "done"} => po_compiled = 1

C19_Witness ==
    /\ FitnessReturned
    /\ is_bil_train
    /\ X.n = MaxSamples
    /\ NaNSamples # {}
    /\ Len(solves) = X.n
    /\ compiled = 1

\* the number of nodes of the tree labelled with exactly this name
RECURSIVE nodes_labelled(_, _)
nodes_labelled(tree, name) ==
    IF tree = <<>> THEN 0
    ELSE (IF Head(tree).name = name THEN 1 ELSE 0) + nodes_labelled(Tail(tree), name)

PoissonFitnessReturned == po_pc = "done" /\ po_entry = "eval_fitness"

\* C20: in the primitive-count penalty (eval_fitness of stgp_poisson and the
\* method 'primitive' of stgp_elastica) the count attributed to each
\* primitive name is the number of nodes of the tree labelled with exactly
\* that name.
C20_CountsAreNodeCounts ==
    /\ (FitnessReturned /\ penalty.method = "primitive") =>
          \A k \in 1..Len(primitives_strings) :
             count(PrimitiveTree_str(individual.tree), primitives_strings[k])
                = nodes_labelled(individual.tree, primitives_strings[k])
    /\ PoissonFitnessReturned =>
          \A k \in 1..Len(counted_strings) :
             counts(PrimitiveTree_str(po_individual))[k]
                = nodes_labelled(po_individual, counted_strings[k])

\* the first conjunct of C20, for stgp_elastica alone
ElasticaCountsAreNodeCounts ==
    (FitnessReturned /\ penalty.method = "primitive") =>
        \A k \in 1..Len(primitives_strings) :
           count(PrimitiveTree_str(individual.tree), primitives_strings[k])
              = nodes_labelled(individual.tree, primitives_strings[k])

\* the second conjunct of C20, for stgp_poisson alone
PoissonCountsAreNodeCounts ==
    PoissonFitnessReturned =>
        \A k \in 1..Len(counted_strings) :
           counts(PrimitiveTree_str(po_individual))[k]
              = nodes_labelled(po_individual, counted_strings[k])

(***************************************************************************)
(* Properties of the tracking evaluations                                  *)
(***************************************************************************)

\* the calls registered as evaluate_val_fit (eval_fitness), evaluate_val_MSE
\* (eval_MSE) and made by plot_sol (eval_MSE with return_best_sol): all of
\* them pass is_bil_train=True
TrackingCall ==
    /\ is_bil_train
    /\ \/ entry = "eval_fitness"
       \/ entry = "eval_MSE"

\* C21: evaluating an individual on the validation split (evaluate_val_fit,
\* evaluate_val_MSE) or plotting it (plot_sol) leaves the individual
\* unchanged: no step of such a call changes individual, in particular
\* individual.EI0.
C21_TrackingLeavesIndividual ==
    [][TrackingCall => individual' = individual]_vars

(***************************************************************************)
(* addPrimitivesToPset(pset, primitive_spec)                               *)
(***************************************************************************)

\* family names an entry of primitive_spec can carry
SpecNames ==
    {<<"A", "d", "d", "C">>, <<"S", "i", "n">>, <<"A", "r", "c", "S", "i", "n">>,
     <<"S", "i", "n", "F">>, <<"S", "t">>, <<"S", "t", "P", "1">>}

\* the lists 'dimension' and 'rank' an entry can carry
SpecDimensions == {<<"0">>, <<"0", "1", "2">>}

SpecRanks == {<<SC>>, <<SC, <<"V">>, <<"T">>>>}

SpecEntries == [name : SpecNames, dimension : SpecDimensions, rank : SpecRanks]

\* longest primitive_spec
MaxEntries == 2

PrimitiveSpecs == UNION {[1..n -> SpecEntries] : n \in 1..MaxEntries}

\* sum([name.count(obj) for obj in objects])
RECURSIVE sum_counts(_, _)
sum_counts(name, objects) ==
    IF objects = <<>> THEN 0
    ELSE count(name, Head(objects)) + sum_counts(name, Tail(objects))

\* list(set(('0', '1', '2')) - set(primitive_family['dimension']))
non_feasible_dimensions(primitive_family) ==
    LET feasible(d) == \A k \in 1..Len(primitive_family.dimension) :
                          <<primitive_family.dimension[k]>> # d
    IN  SelectSeq(<<<<"0">>, <<"1">>, <<"2">>>>, feasible)

\* list(set(("SC", "V", "T", "vtm")) - set(primitive_family["rank"]))
non_feasible_ranks(primitive_family) ==
    LET feasible(r) == \A k \in 1..Len(primitive_family.rank) :
                          primitive_family.rank[k] # r
    IN  SelectSeq(<<SC, <<"V">>, <<"T">>, <<"v", "t", "m">>>>, feasible)

\* the test of the inner if: no non-feasible object occurs in the NAME OF
\* THE FAMILY, or "VT" occurs in it once
passes_filter(primitive_family) ==
    \/ sum_counts(primitive_family.name,
                  non_feasible_dimensions(primitive_family)
                     \o non_feasible_ranks(primitive_family)) = 0
    \/ count(primitive_family.name, VT) = 1

\* the keys of primitives that pass both ifs for one entry of primitive_spec
selected(primitive_family, catalog) ==
    {name \in DOMAIN catalog :
        /\ count(name, primitive_family.name) > 0
        /\ passes_filter(primitive_family)}

\* addPrimitivesToPset(pset, primitive_spec) is called on the imported module
CallAddPrimitives ==
    /\ pc = "imported"
    /\ ps_pc = "not called"
    /\ primitive_spec' \in PrimitiveSpecs
    /\ spec_index' = 0
    /\ pset' = {}
    /\ ps_pc' = "families"
    /\ UNCHANGED <<catalog_vars, elastica_vars, poisson_vars, run_vars, sample_vars, dataset_vars>>

\* one pass of the loop over primitive_spec: every key of primitives that
\* contains the name of the family and passes the filter is added
AddFamily ==
    /\ ps_pc = "families"
    /\ spec_index < Len(primitive_spec)
    /\ LET primitive_family == primitive_spec[spec_index + 1]
       IN  pset' = pset \cup
              {[name |-> name, entry_index |-> spec_index + 1,
                op |-> primitives[name].op,
                in_types |-> primitives[name].in_types,
                out_type |-> primitives[name].out_type] :
                  name \in selected(primitive_family, primitives)}
    /\ spec_index' = spec_index + 1
    /\ UNCHANGED <<ps_pc, primitive_spec>>
    /\ UNCHANGED <<catalog_vars, elastica_vars, poisson_vars, run_vars, sample_vars, dataset_vars>>

\* the loop over primitive_spec is over: the function returns None
ReturnPset ==
    /\ ps_pc = "families"
    /\ spec_index = Len(primitive_spec)
    /\ ps_pc' = "done"
    /\ UNCHANGED <<primitive_spec, spec_index, pset>>
    /\ UNCHANGED <<catalog_vars, elastica_vars, poisson_vars, run_vars, sample_vars, dataset_vars>>

InitPset ==
    /\ RunNotStarted
    /\ DatasetNotStarted
    /\ SampleNotStarted
    /\ PsetNotStarted
    /\ InitCatalog
    /\ ElasticaNotStarted
    /\ PoissonNotStarted

NextPset ==
    \/ Generate
    \/ LoopPass
    \/ Return
    \/ AppendFamily
    \/ Merge
    \/ FinalMerge
    \/ CallAddPrimitives
    \/ AddFamily
    \/ ReturnPset

SpecPset == InitPset /\ [][NextPset]_vars

(***************************************************************************)
(* Properties of addPrimitivesToPset                                       *)
(***************************************************************************)

PsetReturned == ps_pc = "done"

\* the primitives a family descriptor generates: name, dimension and rank of
\* each pass of its loops
GeneratedBy(descriptor) ==
    {[name |-> primitive_name(descriptor, triple(descriptor, t).category,
                              triple(descriptor, t).dimension,
                              rank_suffix(triple(descriptor, t).rank)),
      dimension |-> triple(descriptor, t).dimension,
      rank |-> triple(descriptor, t).rank] : t \in 1..num_triples(descriptor)}

\* the descriptors of the catalog with a given family name
DescriptorsNamed(name) ==
    {families[k] : k \in {j \in 1..Len(families) : families[j].name = name}}

InList(x, list) == \E k \in 1..Len(list) : list[k] = x

\* C22: a cochain primitive of the family of an entry is registered for that
\* entry only if its dimension is in the entry's 'dimension' list and its
\* rank is in the entry's 'rank' list.
C22_OnlyListedDimensionsAndRanks ==
    PsetReturned =>
        \A call \in pset :
           \A descriptor \in DescriptorsNamed(primitive_spec[call.entry_index].name) :
              \A g \in GeneratedBy(descriptor) :
                 g.name = call.name =>
                    /\ InList(Head(g.dimension), primitive_spec[call.entry_index].dimension)
                    /\ InList(g.rank, primitive_spec[call.entry_index].rank)

\* C23: what an entry with family name N registers belongs to family N: it
\* is the primitive named N or a cochain primitive named
\* N + category + dimension + rank.
C23_OnlyOwnFamily ==
    PsetReturned =>
        \A call \in pset :
           LET N == primitive_spec[call.entry_index].name
           IN  call.name = N \/ call.name \in NamesOf(N)

\* C24: with pairwise distinct family names in primitive_spec, no name is
\* handed to pset.addPrimitive twice in one call.
C24_RegisteredAtMostOnce ==
    (PsetReturned
        /\ \A k, j \in 1..Len(primitive_spec) :
              primitive_spec[k].name = primitive_spec[j].name => k = j) =>
        \A call, other \in pset : call.name = other.name => call = other

\* the call addPrimitivesToPset(pset, [{'name': 'Sin', 'dimension': ['0'],
\* 'rank': ['SC']}]) registers 13 primitives
SinEntryRegisters13 ==
    (PsetReturned /\ Len(primitive_spec) = 1
        /\ primitive_spec[1] = [name |-> <<"S", "i", "n">>, dimension |-> <<"0">>,
                                rank |-> <<SC>>]) =>
        Cardinality(pset) = 13

\* the first sample whose error is NaN (when there is one)
FirstNaN == CHOOSE j \in NaNSamples : \A k \in NaNSamples : j <= k

\* C25: the total error eval_MSE returns when a sample yields NaN is at
\* least the total error the call would return from the finite errors
\* accumulated before that sample.
C25_SentinelNeverImproves ==
    (el_pc = "done" /\ ~return_best_sol /\ NaNSamples # {}
        /\ \A j \in 1..(FirstNaN - 1) : isfinite(solver.fval[j])) =>
        fle(format5(normalise(Fin(OwnSum(FirstNaN - 1), 1), X.ndim, X.n)), result)

(***************************************************************************)
(* One sample of the elastica eval_MSE, field by field                     *)
(***************************************************************************)

\* S.num_nodes of the mesh
NumNodes == 4

\* values an entry of a field takes
FieldValues == {0, 1, 2}

\* np.insert(arr, obj, values): values placed before index obj (from 0)
insert_mut(arr, obj, values) == arr \o <<values>>
insert(arr, obj, values) ==
    SubSeq(arr, 1, obj) \o <<values>> \o SubSeq(arr, obj + 1, Len(arr))

\* jnp.sum(jnp.square(a - b))
RECURSIVE sum_square(_, _)
sum_square(a, b) ==
    IF a = <<>> THEN 0
    ELSE (Head(a) - Head(b)) * (Head(a) - Head(b)) + sum_square(Tail(a), Tail(b))

\* ObjElastica.total_energy: the theta_vec extended on the boundary, from
\* which the cochain handed to energy_func is built
total_energy_field(theta_vec, boundary) == insert(theta_vec, 0, boundary)

\* obj_fun_theta: theta_guess extended with theta_true[0]
obj_fun_theta_field(theta_guess, true_field) == insert(theta_guess, 0, true_field[1])

\* obj_fun_theta(theta_guess, EI_guess, theta_true)
obj_fun_theta(theta_guess, true_field) ==
    sum_square(obj_fun_theta_field(theta_guess, true_field), true_field)

\* theta_0: S.num_nodes-2 unknowns
theta_0 == [k \in 1..(NumNodes - 2) |-> 0]

InitSample ==
    /\ RunNotStarted
    /\ DatasetNotStarted
    /\ PsetNotStarted
    /\ InitCatalog
    /\ ElasticaNotStarted
    /\ PoissonNotStarted
    /\ sm_pc = "sample"
    /\ sm_how \in {"bilevel", "minimize"}
    /\ theta_true \in [1..(NumNodes - 1) -> FieldValues]
    /\ theta_in = 0
    /\ theta = theta_0
    /\ energy_field = <<>>
    /\ compared = <<>>
    /\ sm_fval = 0

\* theta_in = theta_true[0]
TakeBoundary ==
    /\ sm_pc = "sample"
    /\ theta_in' = theta_true[1]
    /\ sm_pc' = "solve"
    /\ UNCHANGED <<sm_how, theta_true, theta, energy_field, compared, sm_fval>>
    /\ UNCHANGED <<catalog_vars, elastica_vars, poisson_vars, run_vars, pset_vars, dataset_vars>>

\* the inner solve (prb.run with constraint_args=(theta_in,), or minimize
\* with args=(FL2_EI0, theta_in)) evaluates obj.total_energy at an iterate
\* of S.num_nodes-2 unknowns
EnergyCall ==
    /\ sm_pc = "solve"
    /\ \E theta_vec \in [1..Len(theta_0) -> FieldValues] :
          /\ theta' = theta_vec
          /\ energy_field' = total_energy_field(theta_vec, theta_in)
    /\ UNCHANGED <<sm_pc, sm_how, theta_true, theta_in, compared, sm_fval>>
    /\ UNCHANGED <<catalog_vars, elastica_vars, poisson_vars, run_vars, pset_vars, dataset_vars>>

\* the inner solve returns its last iterate; fval is obj_fun_theta of it
\* (prb.run with objfun=obj_fun_theta and obj_args=(theta_true,), or the call
\* obj_fun_theta(theta, FL2_EI0, theta_true) after minimize)
Solved ==
    /\ sm_pc = "solve"
    /\ energy_field # <<>>
    /\ compared' = obj_fun_theta_field(theta, theta_true)
    /\ sm_fval' = obj_fun_theta(theta, theta_true)
    /\ sm_pc' = "solved"
    /\ UNCHANGED <<sm_how, theta_true, theta_in, theta, energy_field>>
    /\ UNCHANGED <<catalog_vars, elastica_vars, poisson_vars, run_vars, pset_vars, dataset_vars>>

\* theta = np.insert(theta, 0, theta_in): the solution of the sample
ExtendTheta ==
    /\ sm_pc = "solved"
    /\ theta' = insert(theta, 0, theta_in)
    /\ sm_pc' = "extended"
    /\ UNCHANGED <<sm_how, theta_true, theta_in, energy_field, compared, sm_fval>>
    /\ UNCHANGED <<catalog_vars, elastica_vars, poisson_vars, run_vars, pset_vars, dataset_vars>>

NextSample ==
    \/ TakeBoundary
    \/ EnergyCall
    \/ Solved
    \/ ExtendTheta

SpecSample == InitSample /\ [][NextSample]_vars

(***************************************************************************)
(* Properties of one sample                                                *)
(***************************************************************************)

\* the squared differences over the interior entries only
RECURSIVE InteriorError(_)
InteriorError(k) ==
    IF k = 1 THEN 0
    ELSE InteriorError(k - 1)
         + (compared[k] - theta_true[k]) * (compared[k] - theta_true[k])

\* C26: the boundary condition at node 0 is exact for every sample: the
\* field handed to the energy, the field compared in obj_fun_theta and the
\* solution all start with theta_true[0], the boundary entry contributes
\* nothing to the error of the sample, and the inner solve has
\* S.num_nodes-2 unknowns.
C26_BoundaryEnforced ==
    /\ energy_field # <<>> =>
          /\ energy_field[1] = theta_true[1]
          /\ Len(energy_field) = NumNodes - 1
          /\ SubSeq(energy_field, 2, Len(energy_field)) \in
                [1..(NumNodes - 2) -> FieldValues]
    /\ sm_pc \in {"solved", "extended"} =>
          /\ compared[1] = theta_true[1]
          /\ Len(compared) = Len(theta_true)
          /\ sm_fval = InteriorError(Len(theta_true))
    /\ sm_pc = "solve" => Len(theta) = NumNodes - 2
    /\ sm_pc = "extended" =>
          /\ theta[1] = theta_true[1]
          /\ Len(theta) = Len(theta_true)

C26_Witness ==
    /\ sm_pc = "extended"
    /\ theta_true[1] = 2
    /\ theta[1] = 2
    /\ theta[2] = 0
    /\ theta_true[2] = 2
    /\ sm_fval >= 4

(***************************************************************************)
(* generate_dataset(S, mult, diff)                                         *)
(***************************************************************************)

\* largest mult of a call
MaxMult == 5

\* a row of np.empty((diff*mult, num_nodes)): not written yet
Uninitialised ==
    [value |-> [of |-> "uninitialised", class |-> 0, rep |-> 0], writes |-> 0]

\* the row the pass rep of the loop writes for the function class cls
\* (0 quadratic, 1 trigonometric, 2 power)
row_index_mut(classes, rep, cls) == rep + cls
row_index(classes, rep, cls) == classes * rep + cls

\* data[row, :] = values
assign(data, row, values) ==
    [data EXCEPT ![row + 1] = [value |-> values, writes |-> @.writes + 1]]

\* the samples and the labels of function class cls, repetition rep
Sample_X(cls, rep) == [of |-> "X", class |-> cls, rep |-> rep]

Sample_y(cls, rep) == [of |-> "y", class |-> cls, rep |-> rep]

InitDataset ==
    /\ RunNotStarted
    /\ PsetNotStarted
    /\ SampleNotStarted
    /\ InitCatalog
    /\ ElasticaNotStarted
    /\ PoissonNotStarted
    /\ ds_pc = "quadratic"
    /\ mult \in 1..MaxMult
    /\ diff \in 1..3
    /\ ds_i = 0
    /\ data_X = [r \in 1..(diff * mult) |-> Uninitialised]
    /\ data_y = [r \in 1..(diff * mult) |-> Uninitialised]

\* if diff >= 1: the i-th quadratic function
WriteQuadratic ==
    /\ ds_pc = "quadratic"
    /\ ds_i < mult
    /\ IF diff >= 1
       THEN /\ data_X' = assign(data_X, row_index(diff, ds_i, 0), Sample_X(0, ds_i))
            /\ data_y' = assign(data_y, row_index(diff, ds_i, 0), Sample_y(0, ds_i))
       ELSE UNCHANGED <<data_X, data_y>>
    /\ ds_pc' = "trigonometric"
    /\ UNCHANGED <<mult, diff, ds_i>>
    /\ UNCHANGED <<catalog_vars, elastica_vars, poisson_vars, run_vars, pset_vars,
                   sample_vars>>

\* if diff >= 2: the i-th trigonometric function
WriteTrigonometric ==
    /\ ds_pc = "trigonometric"
    /\ IF diff >= 2
       THEN /\ data_X' = assign(data_X, row_index(diff, ds_i, 1), Sample_X(1, ds_i))
            /\ data_y' = assign(data_y, row_index(diff, ds_i, 1), Sample_y(1, ds_i))
       ELSE UNCHANGED <<data_X, data_y>>
    /\ ds_pc' = "power"
    /\ UNCHANGED <<mult, diff, ds_i>>
    /\ UNCHANGED <<catalog_vars, elastica_vars, poisson_vars, run_vars, pset_vars,
                   sample_vars>>

\* if diff >= 3: the i-th power function; then the next pass of the loop
WritePower ==
    /\ ds_pc = "power"
    /\ IF diff >= 3
       THEN /\ data_X' = assign(data_X, row_index(diff, ds_i, 2), Sample_X(2, ds_i))
            /\ data_y' = assign(data_y, row_index(diff, ds_i, 2), Sample_y(2, ds_i))
       ELSE UNCHANGED <<data_X, data_y>>
    /\ ds_i' = ds_i + 1
    /\ ds_pc' = "quadratic"
    /\ UNCHANGED <<mult, diff>>
    /\ UNCHANGED <<catalog_vars, elastica_vars, poisson_vars, run_vars, pset_vars,
                   sample_vars>>

\* return data_X, data_y
ReturnDataset ==
    /\ ds_pc = "quadratic"
    /\ ds_i = mult
    /\ ds_pc' = "returned"
    /\ UNCHANGED <<mult, diff, ds_i, data_X, data_y>>
    /\ UNCHANGED <<catalog_vars, elastica_vars, poisson_vars, run_vars, pset_vars,
                   sample_vars>>

NextDataset ==
    \/ WriteQuadratic
    \/ WriteTrigonometric
    \/ WritePower
    \/ ReturnDataset

SpecDataset == InitDataset /\ [][NextDataset]_vars

(***************************************************************************)
(* Properties of generate_dataset                                          *)
(***************************************************************************)

\* C27: for diff in 1..3 and mult >= 1, generate_dataset returns arrays of
\* diff*mult rows in which every row was written exactly once, row
\* diff*i + j holding function class j of repetition i, the sample in data_X
\* and its label in data_y at the same index; during the call no row is
\* written twice.
C27_EveryRowWrittenOnce ==
    /\ ds_pc # "not called" =>
          \A r \in 1..(diff * mult) :
             data_X[r].writes <= 1 /\ data_y[r].writes <= 1
    /\ ds_pc = "returned" =>
          /\ Len(data_X) = diff * mult
          /\ Len(data_y) = diff * mult
          /\ \A rep \in 0..(mult - 1) : \A cls \in 0..(diff - 1) :
                /\ data_X[diff * rep + cls + 1] =
                      [value |-> Sample_X(cls, rep), writes |-> 1]
                /\ data_y[diff * rep + cls + 1] =
                      [value |-> Sample_y(cls, rep), writes |-> 1]
          /\ \A r \in 1..(diff * mult) :
                data_X[r] # Uninitialised /\ data_y[r] # Uninitialised

C27_Witness ==
    /\ ds_pc = "returned"
    /\ diff = 3
    /\ mult = 2
    /\ data_X[6].value = Sample_X(2, 1)
    /\ data_y[4].value = Sample_y(0, 1)

\* C28: stgp_poisson(None) reaches GPproblem.run without raising: every
\* local read after the configuration block holds a value on that path.
C28_DefaultPathReachesRun ==
    (app = "poisson" /\ config = NoConfig) =>
        /\ dr_pc # "UnboundLocalError"
        /\ dr_pc = "dataset" =>
              \A k \in 1..Len(read_locals) : read_locals[k] \in bound_locals

\* with a configuration every local read after the block holds a value
ConfiguredPathReachesRun ==
    (app = "poisson" /\ config # NoConfig) =>
        /\ dr_pc # "UnboundLocalError"
        /\ dr_pc = "dataset" =>
              \A k \in 1..Len(read_locals) : read_locals[k] \in bound_locals

\* C29: in stgp_poisson with a configuration, the mutate operator in force
\* when run() starts generates its subtrees with the expr_mut generator the
\* configuration names (expr_mut with expr_mut_kargs), as in stgp_elastica.
C29_MutateUsesConfiguredGenerator ==
    (RunStarted /\ config # NoConfig) =>
        toolbox["mutate"].kargs.expr =
            Generator(config.expr_mut, config.expr_mut_kargs.min_,
                      config.expr_mut_kargs.max_)

\* in stgp_elastica mutate uses the configured generator
ElasticaMutateUsesConfiguredGenerator ==
    (RunStarted /\ app = "elastica") =>
        toolbox["mutate"].kargs.expr =
            Generator(config.expr_mut, config.expr_mut_kargs.min_,
                      config.expr_mut_kargs.max_)

(***************************************************************************)
(* The max_dim of the star family                                          *)
(***************************************************************************)

\* the dimensions a descriptor declares, as integers
declared_dimensions(descriptor) ==
    {int(<<descriptor.dimension[k]>>) : k \in 1..Len(descriptor.dimension)}

\* C30: in generate_primitive the max_dim handed to the star dimension map
\* is the largest declared dimension, whatever the order of the list, so for
\* every declared dimension d the output dimension max_dim - d is in
\* 0..max_dim.
C30_MaxDimIsLargestDeclared ==
    primitive.name = <<"S", "t">> =>
        /\ max_dim_of(primitive) = max(declared_dimensions(primitive))
        /\ \A d \in declared_dimensions(primitive) :
              star_dim(d, max_dim_of(primitive)) \in 0..max_dim_of(primitive)

\* with the dimensions listed in increasing order max_dim is the largest
SortedMaxDimIsLargest ==
    (/\ primitive.name = <<"S", "t">>
     /\ \A k \in 1..(Len(primitive.dimension) - 1) :
           int(<<primitive.dimension[k]>>) < int(<<primitive.dimension[k + 1]>>)) =>
        /\ max_dim_of(primitive) = max(declared_dimensions(primitive))
        /\ \A d \in declared_dimensions(primitive) :
              star_dim(d, max_dim_of(primitive)) \in 0..max_dim_of(primitive)

====
